---- MODULE Spec2Model ----
(***************************************************************************)
(* A model of the scaffold manager: the filesystem, the persisted store,   *)
(* the remote host, and the commands of its two TypeScript generations:    *)
(*   - ScaffoldCli (src/src/cli.ts): batch add/remove over local paths and *)
(*     GitHub URLs, create with cache refresh, mv, list --prune;           *)
(*   - Scafalra (src/src/scafalra.ts, lines 12-146) with its Store         *)
(*     (src/unnamed/part_001) and Repository (src/unnamed/part_002).       *)
(* A command is one process run: it loads the store file, works on the     *)
(* in-memory copy, writes it back and exits.  Asynchronous tasks of a      *)
(* batch interleave at their awaits; each action is one await-to-await     *)
(* stretch of a task.                                                      *)
(***************************************************************************)
EXTENDS Naturals, Sequences, FiniteSets, TLC

VARIABLES
  fs,         \* the filesystem: path -> node
  storeFile,  \* the persisted store: [present, content]
  head,       \* remote host: repository -> number of its HEAD commit
  pc,         \* "idle", the running command, or "done"
  cmd,        \* the running command's arguments
  store,      \* in-memory store: ordered sequence of <<name, entry>>
  changes,    \* in-memory change log: ordered sequence of <<label, entry>>
  key,        \* Key.value: base name -> next counter
  tasks,      \* the batch's tasks, by index
  report,     \* the command's outcome
  start,      \* snapshot taken when the command started
  fetches,    \* archive downloads begun by the running command
  netcalls,   \* requests sent to the remote host by the running command
  ncmd        \* commands run so far

vars == <<fs, storeFile, head, pc, cmd, store, changes, key, tasks, report,
          start, fetches, netcalls, ncmd>>

----------------------------------------------------------------------------
(* Bounds of the model *)

MaxCmds == 2
MaxBatch == 2
MaxCommit == 2

----------------------------------------------------------------------------
(* Filesystem *)

Undefined == "undefined"

Dir == [kind |-> "dir", data |-> "-"]
File(d) == [kind |-> "file", data |-> d]

IsPrefix(p, q) == Len(p) <= Len(q) /\ SubSeq(q, 1, Len(p)) = p

Parent(p) == SubSeq(p, 1, Len(p) - 1)

basename(p) == p[Len(p)]

exists(f, p) == p \in DOMAIN f

isDirectory(f, p) == p \in DOMAIN f /\ f[p].kind = "dir"

rmrf(f, p) == [q \in {r \in DOMAIN f : ~IsPrefix(p, r)} |-> f[q]]

readdir(f, p) ==
  {q[Len(p) + 1] : q \in {r \in DOMAIN f : Len(r) = Len(p) + 1 /\ IsPrefix(p, r)}}

\* fsp.rename(a, b) of a directory: the subtree under a moves under b
rename(f, a, b) ==
  LET moved == {r \in DOMAIN f : IsPrefix(a, r)}
      kept == {r \in DOMAIN f : ~IsPrefix(a, r) /\ ~IsPrefix(b, r)}
      to(r) == b \o SubSeq(r, Len(a) + 1, Len(r))
  IN [q \in kept \cup {to(r) : r \in moved} |->
        IF q \in kept THEN f[q]
        ELSE f[CHOOSE r \in moved : to(r) = q]]

\* a copy that leaves out the version-control directory only
ignoreGit == {".git"}

ignore == {".git", ".DS_Store", "node_modules"}

RECURSIVE cpEntries(_, _, _, _)
RECURSIVE cpDir(_, _, _)
\* the body of cp once readdir(source) and mkdir(target) are known to succeed
cpDir(f, s, t) == cpEntries(f @@ (t :> Dir), s, t, readdir(f, s))
cpEntries(f, s, t, names) ==
  IF names = {} THEN f
  ELSE LET n == CHOOSE m \in names : TRUE
           sp == Append(s, n)
           tp == Append(t, n)
           g == IF n \in ignore THEN f
                ELSE IF f[sp].kind = "dir" THEN cpDir(f, sp, tp)
                ELSE IF f[sp].kind = "file" THEN f @@ (tp :> f[sp])
                ELSE f
       IN cpEntries(g, s, t, names \ {n})

\* a copy that writes into a target that is already there
cpMerge(f, source, target) ==
  IF ~exists(f, source) THEN [err |-> "ENOENT", path |-> source, fs |-> f]
  ELSE IF f[source].kind # "dir" THEN [err |-> "ENOTDIR", path |-> source, fs |-> f]
  ELSE IF ~isDirectory(f, Parent(target)) THEN [err |-> "ENOENT", path |-> target, fs |-> f]
  ELSE [err |-> "", path |-> target, fs |-> cpDir(f, source, target)]

\* cp(source, target): readdir(source), then mkdir(target), then the entries
cp(f, source, target) ==
  IF ~exists(f, source) THEN [err |-> "ENOENT", path |-> source, fs |-> f]
  ELSE IF f[source].kind # "dir" THEN [err |-> "ENOTDIR", path |-> source, fs |-> f]
  ELSE IF exists(f, target) THEN [err |-> "EEXIST", path |-> target, fs |-> f]
  ELSE IF ~isDirectory(f, Parent(target)) THEN [err |-> "ENOENT", path |-> target, fs |-> f]
  ELSE [err |-> "", path |-> target, fs |-> cpDir(f, source, target)]

\* a tree placed under root: rel is a function relative path -> node
Graft(f, root, rel) ==
  [q \in DOMAIN f \cup {root \o r : r \in DOMAIN rel} |->
     IF \E r \in DOMAIN rel : root \o r = q
     THEN rel[CHOOSE r \in DOMAIN rel : root \o r = q]
     ELSE f[q]]

----------------------------------------------------------------------------
(* The machine and the remote host *)

cwd == <<"w">>
homedir == <<"h">>
configDir == homedir \o <<".scaffold-cli">>
cacheDir == configDir \o <<"cache">>

LocalData == "local"

\* the user's template folder t (children a, b, c, a hidden directory, a
\* dependency directory and a plain file) and an existing target folder d
InitFs ==
  (<<"w">> :> Dir) @@ (<<"h">> :> Dir)
  @@ (<<"w", "t">> :> Dir)
  @@ (<<"w", "t", "a">> :> Dir)
  @@ (<<"w", "t", "a", "x.txt">> :> File(LocalData))
  @@ (<<"w", "t", "a", ".git">> :> Dir)
  @@ (<<"w", "t", "a", ".git", "HEAD">> :> File(LocalData))
  @@ (<<"w", "t", "a", "s">> :> Dir)
  @@ (<<"w", "t", "a", "s", "y.txt">> :> File(LocalData))
  @@ (<<"w", "t", "a", "s", ".DS_Store">> :> File(LocalData))
  @@ (<<"w", "t", "b">> :> Dir)
  @@ (<<"w", "t", "b", "x.txt">> :> File(LocalData))
  @@ (<<"w", "t", "c">> :> Dir)
  @@ (<<"w", "t", ".x">> :> Dir)
  @@ (<<"w", "t", "node_modules">> :> Dir)
  @@ (<<"w", "t", "f.txt">> :> File(LocalData))
  @@ (<<"w", "d">> :> Dir)
  @@ (<<"w", "d", "old.txt">> :> File("old"))

Repos == {"o/r", "p/r"}

RepoUser(r) == IF r = "o/r" THEN "o" ELSE "p"

RepoName(r) == "r"

Url(r) == "https://github.com/" \o r \o ".git"

\* the commit identifier of the c-th commit of repository r (no '-' in it)
HashOf(r, c) == (IF r = "o/r" THEN "a" ELSE "b") \o ToString(c)

\* the files of repository r at commit h, relative to the archive's top folder
RepoTree(h) ==
  (<<>> :> Dir)
  @@ (<<"a">> :> Dir) @@ (<<"a", "x.txt">> :> File(h))
  @@ (<<"b">> :> Dir) @@ (<<"b", "x.txt">> :> File(h))
  @@ (<<"c">> :> Dir)
  @@ (<<".x">> :> Dir)
  @@ (<<"node_modules">> :> Dir)
  @@ (<<"f.txt">> :> File(h))

\* path.resolve(cwd, s) / path.isAbsolute(s) ? s : ..., over the strings used
Resolve(s) ==
  CASE s = "t" -> <<"w", "t">>
    [] s = "t/a" -> <<"w", "t", "a">>
    [] s = "t/b" -> <<"w", "t", "b">>
    [] s = "t/zz" -> <<"w", "t", "zz">>
    [] s = "t/f.txt" -> <<"w", "t", "f.txt">>
    [] s = "/h/.scaffold-cli/cache/r" -> cacheDir \o <<"r">>
    [] s = "/h/.scaffold-cli/cache" -> cacheDir
    [] s = "/h/.scafalra/cache/r" -> <<"h", ".scafalra", "cache", "r">>
    [] OTHER -> cwd \o <<s>>

\* first character of a directory entry's name
FirstChar(n) == IF n \in {".x", ".git", ".DS_Store"} THEN "." ELSE "x"

----------------------------------------------------------------------------
(* Ordered maps: JavaScript objects and Maps keep insertion order; setting  *)
(* an existing key keeps its position.  (No key used here is integer-like.) *)

Keys(m) == {m[i][1] : i \in 1..Len(m)}

Has(m, k) == k \in Keys(m)

IndexOf(m, k) == CHOOSE i \in 1..Len(m) : m[i][1] = k

Get(m, k) == m[IndexOf(m, k)][2]

Set(m, k, v) ==
  IF Has(m, k) THEN [m EXCEPT ![IndexOf(m, k)] = <<k, v>>]
  ELSE Append(m, <<k, v>>)

RECURSIVE Delete(_, _)
Delete(m, k) ==
  IF m = <<>> THEN <<>>
  ELSE IF m[1][1] = k THEN Tail(m)
  ELSE <<m[1]>> \o Delete(Tail(m), k)

----------------------------------------------------------------------------
(* ScaffoldCli (src/src/cli.ts): store, key counter, init and save *)

Project(path, remote, hash) == [path |-> path, remote |-> remote, hash |-> hash]

NoFile == [present |-> FALSE, content |-> <<>>]

\* JSON.stringify of the store object and JSON.parse of the file: the
\* entries in key order; a property whose value is undefined is left out
\* and reads back as undefined
stringify(st) == [i \in 1..Len(st) |-> <<st[i][1], st[i][2]>>]

save(st) == [present |-> TRUE, content |-> stringify(st)]

\* readFile throws when the directory exists and the store file does not
init(f, file) ==
  IF exists(f, configDir)
  THEN [ok |-> file.present, store |-> file.content, fs |-> f, file |-> file]
  ELSE [ok |-> TRUE, store |-> <<>>,
        fs |-> f @@ (configDir :> Dir) @@ (cacheDir :> Dir),
        file |-> save(<<>>)]

\* a counter that starts at 0
genFromZero(ky, name) ==
  LET v == IF name \in DOMAIN ky THEN ky[name] ELSE 0
  IN [k |-> v, key |-> (name :> (v + 1)) @@ ky]

\* Key.gen: the counter of a name starts at 1 and is post-incremented
gen(ky, name) ==
  LET v == IF name \in DOMAIN ky THEN ky[name] ELSE 1
  IN [k |-> v, key |-> (name :> (v + 1)) @@ ky]

addProject(st, ch, ky, name, proj, replace) ==
  LET clash == ~replace /\ Has(st, name)
      g == gen(ky, name)
      realName == IF clash THEN name \o "-" \o ToString(g.k) ELSE name
  IN [store |-> Set(st, realName, proj),
      changes |-> Set(ch, <<"+", realName>>, proj),
      key |-> IF clash THEN g.key ELSE ky]

\* the strings of the model that match the isURL pattern
BadUrl == "https://github.com/o/r"

isURL(s) == s \in {Url(r) : r \in Repos} \cup {BadUrl}

\* the github.com/<user>/<name>.git pattern of parse
ParseMatch(s) ==
  IF \E r \in Repos : s = Url(r)
  THEN LET r == CHOOSE q \in Repos : s = Url(q)
       IN [ok |-> TRUE, repo |-> r, user |-> RepoUser(r), name |-> RepoName(r)]
  ELSE [ok |-> FALSE, repo |-> "", user |-> "", name |-> ""]

\* a set as a sequence, in one fixed order (the order readdir lists entries)
RECURSIVE SetToSeq(_)
SetToSeq(S) ==
  IF S = {} THEN <<>>
  ELSE LET x == CHOOSE y \in S : TRUE IN <<x>> \o SetToSeq(S \ {x})

\* the entries a depth-1 add registers from the listing of a directory
childDirs(f, p) ==
  SetToSeq({n \in readdir(f, p) : isDirectory(f, Append(p, n)) /\ FirstChar(n) # "."})

RECURSIVE addChildren(_, _, _, _, _)
\* the for-loop of addLocal / addRemote at depth 1; acc is [store, changes, key]
addChildren(acc, names, p, remote, hash) ==
  IF names = <<>> THEN acc
  ELSE addChildren(
         addProject(acc.store, acc.changes, acc.key, names[1],
                    Project(Append(p, names[1]), remote, hash), FALSE),
         Tail(names), p, remote, hash)

----------------------------------------------------------------------------
(* Tasks of a batch *)

Task(kind, src, dir) ==
  [kind |-> kind, src |-> src, pc |-> "run", name |-> "", hash |-> "",
   dir |-> dir, err |-> ""]

Settled(t) == t.pc \in {"ok", "failed"}

AllSettled == \A i \in DOMAIN tasks : Settled(tasks[i])

LocalsSettled == \A i \in DOMAIN tasks : tasks[i].kind = "local" => Settled(tasks[i])

\* a rejection that takes the batch along: no other source is processed
FailFast(i, e) ==
  [j \in DOMAIN tasks |->
     IF j = i \/ ~Settled(tasks[j])
     THEN [tasks[j] EXCEPT !.pc = "failed", !.err = e]
     ELSE tasks[j]]

Fail(i, e) == [tasks EXCEPT ![i].pc = "failed", ![i].err = e]

\* the subsequence of s whose elements satisfy Test
RECURSIVE SelectSrc(_, _)
SelectSrc(s, url) ==
  IF s = <<>> THEN <<>>
  ELSE (IF isURL(s[1]) = url THEN <<s[1]>> ELSE <<>>) \o SelectSrc(Tail(s), url)

\* sequences of distinct elements of S (uniq(args)) of length 1..n
DistinctSeqs(S, n) ==
  {q \in UNION {[1..k -> S] : k \in 1..n} : \A i, j \in DOMAIN q : i # j => q[i] # q[j]}

NoReport == [success |-> 0, failed |-> <<>>, error |-> ""]

NoStart == [store |-> <<>>, file |-> NoFile, fs |-> <<>>]

Idle ==
  /\ pc = "idle"
  /\ ncmd < MaxCmds

\* what every command does first: main() awaits init()
Begin(name, args, i, ts) ==
  /\ i.ok
  /\ pc' = name
  /\ cmd' = args
  /\ store' = i.store
  /\ fs' = i.fs
  /\ storeFile' = i.file
  /\ changes' = <<>>
  /\ key' = <<>>
  /\ tasks' = ts
  /\ report' = NoReport
  /\ start' = [store |-> i.store, file |-> i.file, fs |-> i.fs]
  /\ fetches' = 0
  /\ netcalls' = 0
  /\ ncmd' = ncmd + 1
  /\ UNCHANGED head

----------------------------------------------------------------------------
(* ScaffoldCli.add: addLocal and addRemote tasks under Promise.allSettled *)

AddSources == {"t", "t/a", "t/zz", "t/f.txt", Url("o/r"), Url("p/r"), BadUrl}

\* add(paths, depth): the local sources are dispatched first; the remote ones
\* once every local task has settled
StartAdd(paths, depth) ==
  /\ Idle
  /\ Begin("add", [name |-> "add", paths |-> paths, depth |-> depth],
           init(fs, storeFile),
           LET locals == SelectSrc(paths, FALSE)
               remotes == SelectSrc(paths, TRUE)
           IN [i \in 1..Len(locals) |-> Task("local", locals[i], <<>>)]
              \o [i \in 1..Len(remotes) |-> Task("remote", remotes[i], cacheDir)])

\* addLocal(src, depth): stat or readdir, then the registration
addLocal(i) ==
  /\ pc = "add"
  /\ tasks[i].kind = "local"
  /\ tasks[i].pc = "run"
  /\ LET absPath == Resolve(tasks[i].src)
         acc == [store |-> store, changes |-> changes, key |-> key]
         res ==
           IF ~exists(fs, absPath) THEN [err |-> "ENOENT", acc |-> acc]
           ELSE IF cmd.depth = 0
           THEN IF ~isDirectory(fs, absPath)
                THEN [err |-> "is not a directory", acc |-> acc]
                ELSE [err |-> "",
                      acc |-> addProject(store, changes, key, basename(absPath),
                                         Project(absPath, Undefined, Undefined), FALSE)]
           ELSE IF ~isDirectory(fs, absPath)
                THEN [err |-> "ENOTDIR", acc |-> acc]
                ELSE [err |-> "",
                      acc |-> addChildren(acc, childDirs(fs, absPath), absPath,
                                          Undefined, Undefined)]
     IN /\ store' = res.acc.store
        /\ changes' = res.acc.changes
        /\ key' = res.acc.key
        /\ tasks' = IF res.err = "" THEN [tasks EXCEPT ![i].pc = "ok"]
                    ELSE Fail(i, res.err)
  /\ UNCHANGED <<fs, storeFile, head, pc, cmd, report, start, fetches, netcalls, ncmd>>

\* a failed parse rejects addRemote and an ad-hoc create; create on a stored
\* entry catches it (parse(proj.remote).catch(() => null)) and goes on
Unresolved(i, e) ==
  IF tasks[i].kind = "refresh"
  THEN [tasks EXCEPT ![i].pc = "unresolved", ![i].err = e]
  ELSE Fail(i, e)

\* a resolution after which every task downloads
ResolvedAlways(i, hash) ==
  CASE tasks[i].kind = "adhoc" -> "check"
    [] OTHER -> "download"

\* where a task goes once its commit is resolved: create on a stored entry
\* refetches only if (repo.hash !== proj.hash); an ad-hoc create checks the
\* destination first
Resolved(i, hash) ==
  CASE tasks[i].kind = "refresh" ->
         IF hash # Get(store, cmd.src).hash THEN "download" ELSE "fresh"
    [] tasks[i].kind = "adhoc" -> "check"
    [] OTHER -> "download"

\* addRemote: const repo = await parse(src).  The pattern is matched first;
\* the HEAD commit is then asked of the remote host, which may fail
parse(i, ok) ==
  /\ pc \in {"add", "create"}
  /\ tasks[i].kind \in {"remote", "refresh", "adhoc"}
  /\ tasks[i].pc = "run"
  /\ LocalsSettled
  /\ LET m == ParseMatch(tasks[i].src)
     IN IF ~m.ok
        THEN /\ ok = FALSE
             /\ tasks' = Unresolved(i, "Invalid GitHub url")
             /\ UNCHANGED netcalls
        ELSE /\ netcalls' = netcalls + 1
             /\ tasks' = IF ok
                         THEN [tasks EXCEPT ![i].pc = Resolved(i, HashOf(m.repo, head[m.repo])),
                                            ![i].name = m.name,
                                            ![i].hash = HashOf(m.repo, head[m.repo])]
                         ELSE Unresolved(i, "Could not find commit hash")
  /\ UNCHANGED <<fs, storeFile, head, pc, cmd, store, changes, key, report, start,
                 fetches, ncmd>>

ZipName(t) == t.name \o "-" \o t.hash \o ".zip"

\* path.parse(src).name of the archive: its file name without the extension
ZipBase(t) == t.name \o "-" \o t.hash

\* download(url, dest): the archive is written to dest, or the request fails
download(i, ok) ==
  /\ pc \in {"add", "create"}
  /\ tasks[i].pc = "download"
  /\ fetches' = fetches + 1
  /\ netcalls' = netcalls + 1
  /\ IF ok /\ isDirectory(fs, tasks[i].dir)
     THEN /\ fs' = (Append(tasks[i].dir, ZipName(tasks[i])) :> File(tasks[i].hash)) @@ fs
          /\ tasks' = [tasks EXCEPT ![i].pc = "extract"]
     ELSE /\ tasks' = Fail(i, "download failed")
          /\ UNCHANGED fs
  /\ UNCHANGED <<storeFile, head, pc, cmd, store, changes, key, report, start, ncmd>>

\* unzip, first part: zip.extract(null, dir); zip.close(); fsp.rm(src)
unzipExtract(i, ok) ==
  /\ pc \in {"add", "create"}
  /\ tasks[i].pc = "extract"
  /\ LET t == tasks[i]
         zip == Append(t.dir, ZipName(t))
     IN IF ok /\ exists(fs, zip)
        THEN /\ fs' = rmrf(Graft(fs, Append(t.dir, ZipBase(t)), RepoTree(fs[zip].data)), zip)
             /\ tasks' = [tasks EXCEPT ![i].pc = "rmrf"]
        ELSE /\ tasks' = Fail(i, "extract failed")
             /\ UNCHANGED fs
  /\ UNCHANGED <<storeFile, head, pc, cmd, store, changes, key, report, start,
                 fetches, netcalls, ncmd>>

\* name.slice(0, name.lastIndexOf('-')): commit identifiers hold no '-'
nameWithoutHash(t) == t.name

\* unzip, second part: await rmrf(unzipedDir)
unzipRmrf(i) ==
  /\ pc \in {"add", "create"}
  /\ tasks[i].pc = "rmrf"
  /\ fs' = rmrf(fs, Append(tasks[i].dir, nameWithoutHash(tasks[i])))
  /\ tasks' = [tasks EXCEPT ![i].pc = "rename"]
  /\ UNCHANGED <<storeFile, head, pc, cmd, store, changes, key, report, start,
                 fetches, netcalls, ncmd>>

\* a fetch that hands the refreshed cache to the copy without the update
afterFetchNoUpdate(i, repoDir) ==
  LET t == tasks[i]
  IN IF t.kind = "remote" /\ cmd.depth = 0
     THEN LET r == addProject(store, changes, key, t.name,
                              Project(repoDir, t.src, t.hash), FALSE)
          IN /\ store' = r.store
             /\ changes' = r.changes
             /\ key' = r.key
             /\ tasks' = [tasks EXCEPT ![i].pc = "ok"]
     ELSE /\ tasks' = [tasks EXCEPT ![i].pc = IF t.kind = "remote" THEN "readdir" ELSE "ok"]
          /\ UNCHANGED <<store, changes, key>>

\* what addRemote (or create) does once cacheRepo has returned repoDir
afterFetch(i, repoDir) ==
  LET t == tasks[i]
  IN IF t.kind = "remote" /\ cmd.depth = 0
     THEN LET r == addProject(store, changes, key, t.name,
                              Project(repoDir, t.src, t.hash), FALSE)
          IN /\ store' = r.store
             /\ changes' = r.changes
             /\ key' = r.key
             /\ tasks' = [tasks EXCEPT ![i].pc = "ok"]
     ELSE /\ tasks' = [tasks EXCEPT ![i].pc = CASE t.kind = "remote" -> "readdir"
                                                [] t.kind = "refresh" -> "update"
                                                [] OTHER -> "ok"]
          /\ UNCHANGED <<store, changes, key>>

\* unzip, third part: fsp.rename(path.join(dir, name), unzipedDir)
unzipRename(i) ==
  /\ pc \in {"add", "create"}
  /\ tasks[i].pc = "rename"
  /\ LET t == tasks[i]
         from == Append(t.dir, ZipBase(t))
         unzipedDir == Append(t.dir, nameWithoutHash(t))
     IN IF ~exists(fs, from)
        THEN /\ tasks' = Fail(i, "ENOENT")
             /\ UNCHANGED <<fs, store, changes, key>>
        ELSE IF exists(fs, unzipedDir) /\ readdir(fs, unzipedDir) # {}
        THEN /\ tasks' = Fail(i, "ENOTEMPTY")
             /\ UNCHANGED <<fs, store, changes, key>>
        ELSE /\ fs' = rename(fs, from, unzipedDir)
             /\ afterFetch(i, unzipedDir)
  /\ UNCHANGED <<storeFile, head, pc, cmd, report, start, fetches, netcalls, ncmd>>

\* addRemote at depth 1: readdir(repoDir), then one entry per child directory
addRemoteChildren(i) ==
  /\ pc = "add"
  /\ tasks[i].pc = "readdir"
  /\ LET t == tasks[i]
         repoDir == Append(t.dir, nameWithoutHash(t))
         acc == [store |-> store, changes |-> changes, key |-> key]
     IN IF ~isDirectory(fs, repoDir)
        THEN /\ tasks' = Fail(i, "ENOENT")
             /\ UNCHANGED <<store, changes, key>>
        ELSE LET r == addChildren(acc, childDirs(fs, repoDir), repoDir, t.src, t.hash)
             IN /\ store' = r.store
                /\ changes' = r.changes
                /\ key' = r.key
                /\ tasks' = [tasks EXCEPT ![i].pc = "ok"]
  /\ UNCHANGED <<fs, storeFile, head, pc, cmd, report, start, fetches, netcalls, ncmd>>

\* log.result: the number of fulfilled tasks and the reasons of the rejected
RECURSIVE Failed(_)
Failed(ts) ==
  IF ts = <<>> THEN <<>>
  ELSE (IF ts[1].pc = "failed" THEN <<<<ts[1].src, ts[1].err>>>> ELSE <<>>)
       \o Failed(Tail(ts))

Result(ts) ==
  [success |-> Cardinality({i \in DOMAIN ts : ts[i].pc = "ok"}),
   failed |-> Failed(ts), error |-> ""]

\* an end that comes with the first rejection (Promise.all)
finishOnRejection ==
  /\ pc \in {"add", "remove"}
  /\ AllSettled \/ \E i \in DOMAIN tasks : tasks[i].pc = "failed"
  /\ storeFile' = save(store)
  /\ report' = Result(tasks)
  /\ pc' = "done"
  /\ UNCHANGED <<fs, head, cmd, store, changes, key, tasks, start, fetches,
                 netcalls, ncmd>>

\* the end of add and of remove: await this.save(); logChanges(); log.result
finish ==
  /\ pc \in {"add", "remove"}
  /\ AllSettled
  /\ storeFile' = save(store)
  /\ report' = Result(tasks)
  /\ pc' = "done"
  /\ UNCHANGED <<fs, head, cmd, store, changes, key, tasks, start, fetches,
                 netcalls, ncmd>>

\* the process exits: its memory is gone, the disk stays
exit ==
  /\ pc = "done"
  /\ pc' = "idle"
  /\ cmd' = [name |-> ""]
  /\ store' = <<>>
  /\ changes' = <<>>
  /\ key' = <<>>
  /\ tasks' = <<>>
  /\ report' = NoReport
  /\ start' = NoStart
  /\ fetches' = 0
  /\ netcalls' = 0
  /\ UNCHANGED <<fs, storeFile, head, ncmd>>

----------------------------------------------------------------------------
(* ScaffoldCli.remove: removeProject tasks under Promise.allSettled *)

RemoveNames == {"a", "r", "zz"}

StartRemove(names) ==
  /\ Idle
  /\ Begin("remove", [name |-> "remove", names |-> names], init(fs, storeFile),
           [i \in 1..Len(names) |-> Task("remove", names[i], <<>>)])

\* a removal that passes over a name the store does not hold
removeProjectQuiet(i) ==
  /\ pc = "remove"
  /\ tasks[i].pc = "run"
  /\ \A j \in 1..(i - 1) : tasks[j].pc # "run"
  /\ LET name == tasks[i].src
     IN IF ~Has(store, name)
        THEN /\ tasks' = [tasks EXCEPT ![i].pc = "ok"]
             /\ UNCHANGED <<store, changes>>
        ELSE IF Get(store, name).remote # Undefined
        THEN /\ tasks' = [tasks EXCEPT ![i].pc = "rmrf", ![i].dir = Get(store, name).path]
             /\ UNCHANGED <<store, changes>>
        ELSE /\ changes' = Set(changes, <<"-", name>>, Get(store, name))
             /\ store' = Delete(store, name)
             /\ tasks' = [tasks EXCEPT ![i].pc = "ok"]
  /\ UNCHANGED <<fs, storeFile, head, pc, cmd, key, report, start, fetches, netcalls, ncmd>>

\* removeProject(name) up to its first await; names.map runs these stretches
\* one after the other before any rmrf completes
removeProject(i) ==
  /\ pc = "remove"
  /\ tasks[i].pc = "run"
  /\ \A j \in 1..(i - 1) : tasks[j].pc # "run"
  /\ LET name == tasks[i].src
     IN IF ~Has(store, name)
        THEN /\ tasks' = Fail(i, "No such project")
             /\ UNCHANGED <<store, changes>>
        ELSE IF Get(store, name).remote # Undefined
        THEN /\ tasks' = [tasks EXCEPT ![i].pc = "rmrf", ![i].dir = Get(store, name).path]
             /\ UNCHANGED <<store, changes>>
        ELSE /\ changes' = Set(changes, <<"-", name>>, Get(store, name))
             /\ store' = Delete(store, name)
             /\ tasks' = [tasks EXCEPT ![i].pc = "ok"]
  /\ UNCHANGED <<fs, storeFile, head, pc, cmd, key, report, start, fetches, netcalls, ncmd>>

\* a removal that leaves the directory of a remote-backed entry in place
removeRmrfKeeps(i) ==
  /\ pc = "remove"
  /\ tasks[i].pc = "rmrf"
  /\ \A j \in DOMAIN tasks : tasks[j].pc # "run"
  /\ tasks' = [tasks EXCEPT ![i].pc = "record"]
  /\ UNCHANGED <<fs, storeFile, head, pc, cmd, store, changes, key, report, start,
                 fetches, netcalls, ncmd>>

\* await rmrf(proj.path)
removeRmrf(i) ==
  /\ pc = "remove"
  /\ tasks[i].pc = "rmrf"
  /\ \A j \in DOMAIN tasks : tasks[j].pc # "run"
  /\ fs' = rmrf(fs, tasks[i].dir)
  /\ tasks' = [tasks EXCEPT ![i].pc = "record"]
  /\ UNCHANGED <<storeFile, head, pc, cmd, store, changes, key, report, start,
                 fetches, netcalls, ncmd>>

\* a removal that deletes from the store as it was loaded
removeRecordOfLoaded(i) ==
  /\ pc = "remove"
  /\ tasks[i].pc = "record"
  /\ changes' = Set(changes, <<"-", tasks[i].src>>, Get(store, tasks[i].src))
  /\ store' = Delete(start.store, tasks[i].src)
  /\ tasks' = [tasks EXCEPT ![i].pc = "ok"]
  /\ UNCHANGED <<fs, storeFile, head, pc, cmd, key, report, start, fetches, netcalls, ncmd>>

\* removeProject after the await: the change is logged, the entry deleted
removeRecord(i) ==
  /\ pc = "remove"
  /\ tasks[i].pc = "record"
  /\ changes' = Set(changes, <<"-", tasks[i].src>>, Get(store, tasks[i].src))
  /\ store' = Delete(store, tasks[i].src)
  /\ tasks' = [tasks EXCEPT ![i].pc = "ok"]
  /\ UNCHANGED <<fs, storeFile, head, pc, cmd, key, report, start, fetches, netcalls, ncmd>>

----------------------------------------------------------------------------
(* ScaffoldCli.create *)

CreateSources == {"a", "r", "t/a", "t/zz", Url("o/r")}

CreateDirs ==
  {Undefined, "d", "n", "t", "/h/.scaffold-cli/cache/r", "/h/.scaffold-cli/cache"}

StartCreate(src, directory, overwrite) ==
  /\ Idle
  /\ LET i == init(fs, storeFile)
         parentDir == IF directory # Undefined THEN Resolve(directory) ELSE cwd
     IN Begin("create",
              [name |-> "create", src |-> src, directory |-> directory,
               overwrite |-> overwrite],
              i,
              IF isURL(src) THEN <<Task("adhoc", src, parentDir)>>
              ELSE IF Has(i.store, src) /\ Get(i.store, src).remote # Undefined
              THEN <<Task("refresh", Get(i.store, src).remote, cacheDir)>>
              ELSE <<>>)

Done(success, error) ==
  /\ pc' = "done"
  /\ report' = [success |-> success, failed |-> <<>>, error |-> error]

\* create(url): if (!overwrite && (await exists(directoryPath))) return log.error
createCheck(i) ==
  /\ pc = "create"
  /\ tasks[i].pc = "check"
  /\ IF ~cmd.overwrite /\ exists(fs, Append(tasks[i].dir, tasks[i].name))
     THEN /\ Done(0, "EEXIST")
          /\ UNCHANGED tasks
     ELSE /\ tasks' = [tasks EXCEPT ![i].pc = "download"]
          /\ UNCHANGED <<pc, report>>
  /\ UNCHANGED <<fs, storeFile, head, cmd, store, changes, key, start, fetches,
                 netcalls, ncmd>>

\* create on a stale entry, after cacheRepo: addProject(src, {...}, {replace:
\* true}); await this.save()
createUpdate(i) ==
  /\ pc = "create"
  /\ tasks[i].pc = "update"
  /\ LET proj == Get(store, cmd.src)
         r == addProject(store, changes, key, cmd.src,
                         Project(proj.path, proj.remote, tasks[i].hash), TRUE)
     IN /\ store' = r.store
        /\ changes' = r.changes
        /\ key' = r.key
        /\ storeFile' = save(r.store)
  /\ tasks' = [tasks EXCEPT ![i].pc = "ok"]
  /\ UNCHANGED <<fs, head, pc, cmd, report, start, fetches, netcalls, ncmd>>

\* the source of the copy: the stored path, or the directory the input names
createSource ==
  IF Has(store, cmd.src)
  THEN [err |-> "", path |-> Get(store, cmd.src).path]
  ELSE LET absPath == Resolve(cmd.src)
       IN IF ~exists(fs, absPath) THEN [err |-> "ENOENT", path |-> absPath]
          ELSE IF ~isDirectory(fs, absPath) THEN [err |-> "ENOTDIR", path |-> absPath]
          ELSE [err |-> "", path |-> absPath]

createTarget == Resolve(IF cmd.directory # Undefined THEN cmd.directory ELSE cmd.src)

\* create from a directory: the self-copy check, rmrf(target) under overwrite,
\* cp(source, target)
createCopy ==
  /\ pc = "create"
  /\ ~isURL(cmd.src)
  /\ \A i \in DOMAIN tasks : tasks[i].pc \in {"fresh", "unresolved", "ok"}
  /\ LET source == createSource
         target == createTarget
         cleared == IF cmd.overwrite THEN rmrf(fs, target) ELSE fs
         copied == cp(cleared, source.path, target)
     IN IF source.err # ""
        THEN /\ Done(0, source.err)
             /\ UNCHANGED fs
        ELSE IF target = source.path
        THEN /\ Done(0, "same")
             /\ UNCHANGED fs
        ELSE /\ fs' = copied.fs
             /\ Done(IF copied.err = "" THEN 1 ELSE 0, copied.err)
  /\ UNCHANGED <<storeFile, head, cmd, store, changes, key, tasks, start, fetches,
                 netcalls, ncmd>>

\* create ends once its fetch has: an ad-hoc fetch reports the project or the
\* error; an error of the refetch of a stored entry escapes create
createEnd ==
  /\ pc = "create"
  /\ \E i \in DOMAIN tasks :
       \/ /\ tasks[i].pc = "failed"
          /\ Done(0, IF tasks[i].kind = "refresh" THEN "fatal" ELSE tasks[i].err)
       \/ /\ tasks[i].kind = "adhoc"
          /\ tasks[i].pc = "ok"
          /\ Done(1, "")
  /\ UNCHANGED <<fs, storeFile, head, cmd, store, changes, key, tasks, start, fetches,
                 netcalls, ncmd>>

----------------------------------------------------------------------------
(* ScaffoldCli.mv and ScaffoldCli.list *)

MvNames == {"a", "r", "zz"}

StartMv(oldName, newName) ==
  /\ Idle
  /\ Begin("mv", [name |-> "mv", oldName |-> oldName, newName |-> newName],
           init(fs, storeFile), <<>>)

mv ==
  /\ pc = "mv"
  /\ IF ~Has(store, cmd.oldName) \/ cmd.oldName = cmd.newName
     THEN /\ Done(0, "")
          /\ UNCHANGED <<store, storeFile>>
     ELSE IF Has(store, cmd.newName)
     THEN /\ Done(0, "already exists")
          /\ UNCHANGED <<store, storeFile>>
     ELSE LET moved == Delete(Set(store, cmd.newName, Get(store, cmd.oldName)),
                              cmd.oldName)
          IN /\ store' = moved
             /\ storeFile' = save(moved)
             /\ Done(1, "")
  /\ UNCHANGED <<fs, head, cmd, changes, key, tasks, start, fetches, netcalls, ncmd>>

\* list reads the store and at most rewrites it: it is the one command run
\* once more after the others
StartList(prune) ==
  /\ pc = "idle"
  /\ ncmd < MaxCmds + 1
  /\ Begin("list", [name |-> "list", prune |-> prune], init(fs, storeFile), <<>>)

\* the entries whose path exists, in order
RECURSIVE pruned(_, _)
pruned(f, st) ==
  IF st = <<>> THEN <<>>
  ELSE (IF exists(f, st[1][2].path) THEN <<st[1]>> ELSE <<>>) \o pruned(f, Tail(st))

\* log.grid of the store: one row per entry, its name and its path
grid(st) == [i \in 1..Len(st) |-> <<st[i][1], st[i][2].path>>]

\* a list that prunes in memory and does not write the store file
listNoSave ==
  /\ pc = "list"
  /\ store' = IF cmd.prune THEN pruned(fs, store) ELSE store
  /\ pc' = "done"
  /\ report' = [success |-> 1, failed |-> <<>>, error |-> "", grid |-> grid(store')]
  /\ UNCHANGED <<fs, storeFile, head, cmd, changes, key, tasks, start, fetches,
                 netcalls, ncmd>>

\* list(prune): the entries whose path is gone are deleted and the store is
\* saved; then the grid is printed
list ==
  /\ pc = "list"
  /\ IF cmd.prune
     THEN /\ store' = pruned(fs, store)
          /\ storeFile' = save(pruned(fs, store))
     ELSE UNCHANGED <<store, storeFile>>
  /\ pc' = "done"
  /\ report' = [success |-> 1, failed |-> <<>>, error |-> "", grid |-> grid(store')]
  /\ UNCHANGED <<fs, head, cmd, changes, key, tasks, start, fetches, netcalls, ncmd>>

----------------------------------------------------------------------------
(* The environment of ScaffoldCli *)

\* a push to a remote repository moves its HEAD
push(r) ==
  /\ head[r] < MaxCommit
  /\ pc = "idle"
  /\ head' = [head EXCEPT ![r] = @ + 1]
  /\ UNCHANGED <<fs, storeFile, pc, cmd, store, changes, key, tasks, report, start,
                 fetches, netcalls, ncmd>>

UserDirs == {<<"w", "t", "a">>}

\* the user deletes a directory of theirs between two commands
userDeletes(p) ==
  /\ pc = "idle"
  /\ exists(fs, p)
  /\ fs' = rmrf(fs, p)
  /\ UNCHANGED <<storeFile, head, pc, cmd, store, changes, key, tasks, report, start,
                 fetches, netcalls, ncmd>>

----------------------------------------------------------------------------
(* Specifications of ScaffoldCli *)

Init ==
  /\ fs = InitFs
  /\ storeFile = NoFile
  /\ head = [r \in Repos |-> 1]
  /\ pc = "idle"
  /\ cmd = [name |-> ""]
  /\ store = <<>>
  /\ changes = <<>>
  /\ key = <<>>
  /\ tasks = <<>>
  /\ report = NoReport
  /\ start = NoStart
  /\ fetches = 0
  /\ netcalls = 0
  /\ ncmd = 0

\* the steps of the fetch: parse, download, unzip
Fetch ==
  \/ \E i \in DOMAIN tasks, ok \in BOOLEAN : parse(i, ok)
  \/ \E i \in DOMAIN tasks, ok \in BOOLEAN : download(i, ok)
  \/ \E i \in DOMAIN tasks, ok \in BOOLEAN : unzipExtract(i, ok)
  \/ \E i \in DOMAIN tasks : unzipRmrf(i)
  \/ \E i \in DOMAIN tasks : unzipRename(i)

\* batches of add commands over local and remote sources, at both depths
NextAdd ==
  \/ \E paths \in DistinctSeqs(AddSources, MaxBatch), depth \in {0, 1} :
       StartAdd(paths, depth)
  \/ \E i \in DOMAIN tasks : addLocal(i)
  \/ Fetch
  \/ \E i \in DOMAIN tasks : addRemoteChildren(i)
  \/ finish
  \/ exit

SpecAdd == Init /\ [][NextAdd]_vars

CliBatches == {<<"t/a">>, <<Url("o/r")>>, <<"t/a", Url("o/r")>>}

\* every command of the tool, over a store of at most one local and one
\* remote template
Next ==
  \/ \E paths \in CliBatches : StartAdd(paths, 0)
  \/ \E i \in DOMAIN tasks : addLocal(i)
  \/ Fetch
  \/ finish
  \/ \E names \in DistinctSeqs(RemoveNames, MaxBatch) : StartRemove(names)
  \/ \E i \in DOMAIN tasks : removeProject(i)
  \/ \E i \in DOMAIN tasks : removeRmrf(i)
  \/ \E i \in DOMAIN tasks : removeRecord(i)
  \/ \E src \in CreateSources, directory \in CreateDirs, overwrite \in BOOLEAN :
       StartCreate(src, directory, overwrite)
  \/ \E i \in DOMAIN tasks : createCheck(i)
  \/ \E i \in DOMAIN tasks : createUpdate(i)
  \/ createCopy
  \/ createEnd
  \/ \E oldName, newName \in MvNames : StartMv(oldName, newName)
  \/ mv
  \/ \E prune \in BOOLEAN : StartList(prune)
  \/ list
  \/ exit
  \/ \E r \in Repos : push(r)
  \/ \E p \in UserDirs : userDeletes(p)

Spec == Init /\ [][Next]_vars

ChildNames == {"a", "b", "zz"}

\* a repository added at depth 1, and remove and create on its children
NextChildren ==
  \/ StartAdd(<<Url("o/r")>>, 1)
  \/ Fetch
  \/ \E i \in DOMAIN tasks : addRemoteChildren(i)
  \/ finish
  \/ \E names \in DistinctSeqs(ChildNames, MaxBatch) : StartRemove(names)
  \/ \E i \in DOMAIN tasks : removeProject(i)
  \/ \E i \in DOMAIN tasks : removeRmrf(i)
  \/ \E i \in DOMAIN tasks : removeRecord(i)
  \/ \E src \in ChildNames, overwrite \in BOOLEAN : StartCreate(src, "n", overwrite)
  \/ \E i \in DOMAIN tasks : createUpdate(i)
  \/ createCopy
  \/ createEnd
  \/ exit
  \/ push("o/r")

SpecChildren == Init /\ [][NextChildren]_vars

----------------------------------------------------------------------------
(* Repository (src/unnamed/part_002): the input pattern.  An input is the   *)
(* sequence of its tokens: "/", "?", "=", " " (white space) and words that  *)
(* hold none of these.  "\n" stands for the line terminators, " " for the   *)
(* other white space.                                                       *)

\* the characters \s matches
WhiteSpace == {" ", "\n"}

RECURSIVE Join(_)
Join(ws) == IF ws = <<>> THEN "" ELSE ws[1] \o Join(Tail(ws))

\* [^/\s?]+ from position i: the position after the longest run
RECURSIVE RunEnd(_, _)
RunEnd(src, i) ==
  IF i <= Len(src) /\ src[i] \notin {"/", "?"} \cup WhiteSpace THEN RunEnd(src, i + 1)
  ELSE i

\* (?:\/[^/\s?]+)+ from position i: the segments and the position after them
RECURSIVE Segments(_, _, _)
Segments(src, i, acc) ==
  IF i <= Len(src) /\ src[i] = "/" /\ RunEnd(src, i + 1) > i + 1
  THEN Segments(src, RunEnd(src, i + 1),
                Append(acc, Join(SubSeq(src, i + 1, RunEnd(src, i + 1) - 1))))
  ELSE [end |-> i, segs |-> acc]

NoRepository ==
  [ok |-> FALSE, owner |-> "", name |-> "", subdir |-> <<>>,
   query |-> [type |-> Undefined, value |-> ""]]

\* new Repository(src): src.match(regexp), then the fields
Repository(src) ==
  LET slashes == {i \in 1..Len(src) : src[i] = "/"}
      s1 == IF slashes = {} THEN 0 ELSE CHOOSE i \in slashes : \A j \in slashes : i <= j
      e == RunEnd(src, s1 + 1)
      sub == Segments(src, e, <<>>)
      q == sub.end
      hasQuery == q <= Len(src)
  IN IF \/ s1 < 2
        \/ \E i \in 1..(s1 - 1) : src[i] \in WhiteSpace
        \/ e = s1 + 1
     THEN NoRepository
     ELSE IF hasQuery /\ ~(/\ src[q] = "?"
                           /\ q + 3 <= Len(src)
                           /\ src[q + 1] \in {"branch", "tag", "commit"}
                           /\ src[q + 2] = "="
                           /\ \A i \in (q + 3)..Len(src) : src[i] # "\n")
     THEN NoRepository
     ELSE [ok |-> TRUE,
           owner |-> Join(SubSeq(src, 1, s1 - 1)),
           name |-> Join(SubSeq(src, s1 + 1, e - 1)),
           subdir |-> sub.segs,
           query |-> IF hasQuery
                     THEN [type |-> src[q + 1], value |-> Join(SubSeq(src, q + 3, Len(src)))]
                     ELSE [type |-> Undefined, value |-> ""]]

isRepo(src) == Repository(src).ok

MaxTokens == 3

\* the inputs the parser is run on: owner/name parts, subdir parts and query
\* parts, well-formed and not, in every composition, and every sequence of
\* up to MaxTokens tokens
ParseInputs ==
  LET ownerNames ==
        {<<"o", "/", "r">>, <<"o">>, <<"/", "r">>, <<"o", "/">>, <<"o", " ", "/", "r">>,
         <<"o", "/", "r", " ">>, <<" ", "o", "/", "r">>, <<"o", "/", " ", "r">>,
         <<"o", "?", "/", "r">>, <<"foo", "/", "bar">>, <<"a">>}
      subdirs ==
        {<<>>, <<"/", "a">>, <<"/", "a", "/", "b">>, <<"/">>, <<"/", "a", " ">>,
         <<"/", "/", "a">>, <<"/", "a", "/">>}
      queries ==
        {<<>>, <<"?", "tag", "=", "v1">>, <<"?", "branch", "=", "main">>,
         <<"?", "commit", "=", "a1">>, <<"?", "foo", "=", "bar">>, <<"?", "tag", "=">>,
         <<"?", "tag">>, <<"?">>, <<"?", "=", "v1">>, <<"tag", "=", "v1">>,
         <<"?", "tag", "=", "v1", " ", "w">>, <<"?", "branch", "=", " ">>,
         <<"?", "tag", "=", "v1", "\n", "w">>, <<"?", "tag", "=", "v1", "\n">>,
         <<"?", "tag", "=", "v1", "?", "tag", "=", "w">>,
         <<"?", "tag", "=", "a", "/", "b">>, <<"?", " ", "tag", "=", "v1">>,
         <<"?", "tag", " ", "=", "v1">>, <<"?", "tags", "=", "v1">>}
      tokens == {"o", "/", "?", "=", " ", "\n", "tag", "foo"}
  IN {a \o b \o c : a \in ownerNames, b \in subdirs, c \in queries}
     \cup UNION {[1..k -> tokens] : k \in 0..MaxTokens}

\* a process that is about to parse src
InitParse ==
  /\ fs = InitFs
  /\ storeFile = NoFile
  /\ head = [r \in Repos |-> 1]
  /\ pc = "parse"
  /\ cmd \in {[name |-> "parse", input |-> src, repo |-> NoRepository] : src \in ParseInputs}
  /\ store = <<>>
  /\ changes = <<>>
  /\ key = <<>>
  /\ tasks = <<>>
  /\ report = NoReport
  /\ start = NoStart
  /\ fetches = 0
  /\ netcalls = 0
  /\ ncmd = 0

\* new Repository(src): the fields, or the "Could not parse the input" error
construct ==
  /\ pc = "parse"
  /\ pc' = "done"
  /\ cmd' = [cmd EXCEPT !.repo = Repository(cmd.input)]
  /\ report' = [success |-> IF Repository(cmd.input).ok THEN 1 ELSE 0,
                failed |-> <<>>,
                error |-> IF Repository(cmd.input).ok THEN ""
                          ELSE "Could not parse the input"]
  /\ UNCHANGED <<fs, storeFile, head, store, changes, key, tasks, start, fetches,
                 netcalls, ncmd>>

NextParse == construct

SpecParse == InitParse /\ [][NextParse]_vars

----------------------------------------------------------------------------
(* Store (src/unnamed/part_001)                                             *)

scafalraRootDir == homedir \o <<".scafalra">>

scafalraCacheDir == scafalraRootDir \o <<"cache">>

Item(input, url, sha, local) == [input |-> input, url |-> url, sha |-> sha, local |-> local]

\* JSON.stringify of an item: its properties in the order of their creation;
\* a property whose value is undefined is left out (input and local are
\* always strings, url and sha come from the response of the host)
itemJSON(item) ==
  <<<<"input", item.input>>>>
  \o (IF item.url = Undefined THEN <<>> ELSE <<<<"url", item.url>>>>)
  \o (IF item.sha = Undefined THEN <<>> ELSE <<<<"sha", item.sha>>>>)
  \o <<<<"local", item.local>>>>

\* the item read from a parsed object: a property that is not there reads as
\* undefined
itemOf(obj) ==
  Item(Get(obj, "input"),
       IF Has(obj, "url") THEN Get(obj, "url") ELSE Undefined,
       IF Has(obj, "sha") THEN Get(obj, "sha") ELSE Undefined,
       Get(obj, "local"))

\* JSON.stringify([...this.content]): the array of [name, item] pairs
StoreJSON(content) ==
  [i \in 1..Len(content) |-> <<content[i][1], itemJSON(content[i][2])>>]

RECURSIVE newMap(_, _)
\* new Map(pairs): the pairs are set one after the other
newMap(pairs, acc) ==
  IF pairs = <<>> THEN acc
  ELSE newMap(Tail(pairs), Set(acc, pairs[1][1], itemOf(pairs[1][2])))

\* Store.save
StoreSave(content) == [present |-> TRUE, content |-> StoreJSON(content)]

\* a load that reads the pairs of the file from the last to the first
StoreInitBackwards(f, file) ==
  IF ~file.present
  THEN [ok |-> isDirectory(f, scafalraRootDir), content |-> <<>>,
        file |-> IF isDirectory(f, scafalraRootDir) THEN StoreSave(<<>>) ELSE file]
  ELSE [ok |-> TRUE,
        content |-> newMap([i \in 1..Len(file.content) |->
                             file.content[Len(file.content) + 1 - i]], <<>>),
        file |-> file]

\* Store.init: a missing file is written as the empty store (writeFile fails
\* when the directory is not there); a present one is parsed
StoreInit(f, file) ==
  IF ~file.present
  THEN [ok |-> isDirectory(f, scafalraRootDir), content |-> <<>>,
        file |-> IF isDirectory(f, scafalraRootDir) THEN StoreSave(<<>>) ELSE file]
  ELSE [ok |-> TRUE, content |-> newMap(file.content, <<>>), file |-> file]

\* config.json of UserConfig: the file holds the token
configFile == Append(scafalraRootDir, "config.json")

\* UserConfig.init: a missing config.json is written with the empty token
userConfigInit(f) ==
  IF exists(f, configFile) \/ ~isDirectory(f, scafalraRootDir) THEN f
  ELSE f @@ (configFile :> File(""))

\* a token getter that falls back to a built-in token
tokenOrDefault(f) ==
  IF ~exists(f, configFile) \/ f[configFile].data = "" THEN "aaa"
  ELSE f[configFile].data

\* UserConfig.token, as read from config.json
token(f) == IF exists(f, configFile) THEN f[configFile].data ELSE ""

\* an init that does not make the directories
ScafalraInitNoMkdir(f, file) ==
  LET conf == userConfigInit(f)
      i == StoreInit(conf, file)
  IN [ok |-> i.ok, store |-> i.content, file |-> i.file, fs |-> conf,
      token |-> token(conf)]

\* Scafalra.init: the root and cache directories, the user's configuration,
\* then the store
ScafalraInit(f, file) ==
  LET made == IF exists(f, scafalraRootDir) THEN f
              ELSE f @@ (scafalraRootDir :> Dir) @@ (scafalraCacheDir :> Dir)
      conf == userConfigInit(made)
      i == StoreInit(conf, file)
  IN [ok |-> i.ok, store |-> i.content, file |-> i.file, fs |-> conf,
      token |-> token(conf)]

\* Store.add; acc is [content, changes]
StoreAdd(acc, name, itemInit) ==
  [content |-> Set(acc.content, name, itemInit),
   changes |-> Set(acc.changes, <<"+", name>>, "")]

\* a rename that takes the new name whether or not it is in use
StoreRenameOver(content, name, newName) ==
  IF ~Has(content, name) THEN [err |-> "itemNotExists", content |-> content]
  ELSE [err |-> "",
        content |-> Delete(Set(content, newName, Get(content, name)), name)]

\* Store.rename
StoreRename(content, name, newName) ==
  IF ~Has(content, name) THEN [err |-> "itemNotExists", content |-> content]
  ELSE IF Has(content, newName) THEN [err |-> "itemExists", content |-> content]
  ELSE [err |-> "",
        content |-> Delete(Set(content, newName, Get(content, name)), name)]

----------------------------------------------------------------------------
(* Scafalra (src/src/scafalra.ts): add                                      *)

AddInputs ==
  {<<"o", "/", "r">>, <<"p", "/", "r">>, <<"o", "/", "r", "/", "a">>,
   <<"o", "/", "r", "/", "zz">>, <<"o", "/", "q">>, <<"bad">>}

AddNames == {Undefined, "n"}

Fetching(kind, src) ==
  [kind |-> kind, src |-> src, pc |-> "run", name |-> "", hash |-> "", dir |-> <<>>,
   err |-> "", subdir |-> <<>>, url |-> "", old |-> Undefined, zip |-> "",
   lookup |-> [by |-> "", arg |-> ""]]

StartScafalraAdd(input, depth, name) ==
  /\ Idle
  /\ Begin("add",
           [name |-> "add", input |-> input, depth |-> depth, as |-> name,
            token |-> ScafalraInit(fs, storeFile).token],
           ScafalraInit(fs, storeFile), <<Fetching("add", input)>>)

\* randomString(): a name no earlier run has used
randomString == "z" \o ToString(ncmd)

\* a name that does not look at the subdir
finalNameOfRepo(repo) == IF cmd.as # Undefined THEN cmd.as ELSE repo.name

\* the name add stores the template under
finalName(repo) ==
  IF cmd.as # Undefined THEN cmd.as
  ELSE IF repo.subdir # <<>> THEN repo.subdir[Len(repo.subdir)]
  ELSE repo.name

\* a create that downloads into the cache
targetPathCached(repo) == Append(scafalraCacheDir, repo.name)

\* the path create downloads the repository to
targetPath(repo) ==
  IF cmd.directory # Undefined THEN Resolve(cmd.directory) ELSE Append(cwd, repo.name)

\* a selection that looks every named reference up among the branches
githubApiLookupHeads(repo) ==
  IF repo.query.type \in {"branch", "tag"}
  THEN [by |-> "expression", arg |-> "refs/heads/" \o repo.query.value]
  ELSE IF repo.query.type = "commit"
  THEN [by |-> "oid", arg |-> repo.query.value]
  ELSE [by |-> "defaultBranchRef", arg |-> ""]

\* GitHubApi.get: the field of the repository the query asks for
githubApiLookup(repo) ==
  IF repo.query.type \in {"branch", "tag"}
  THEN [by |-> "expression",
        arg |-> (IF repo.query.type = "branch" THEN "refs/heads" ELSE "refs/tags")
                \o "/" \o repo.query.value]
  ELSE IF repo.query.type = "commit"
  THEN [by |-> "oid", arg |-> repo.query.value]
  ELSE [by |-> "defaultBranchRef", arg |-> ""]

\* the answer of the host: the commit of the default branch, of the branch
\* main, of the tag v1 (the first commit) or of a commit identifier of the
\* repository; an object the repository does not hold is null
HostObject(h, id, lookup) ==
  CASE lookup.by = "defaultBranchRef" -> HashOf(id, h[id])
    [] lookup.by = "expression" ->
         IF lookup.arg = "refs/heads/main" THEN HashOf(id, h[id])
         ELSE IF lookup.arg = "refs/tags/v1" THEN HashOf(id, 1)
         ELSE Undefined
    [] OTHER ->
         IF \E c \in 1..h[id] : HashOf(id, c) = lookup.arg THEN lookup.arg
         ELSE Undefined

\* new Repository(input); await this.githubApi.get(repo), which throws before
\* the request when the token is empty; then the names
githubApiGet(i, ok) ==
  /\ pc \in {"add", "create"}
  /\ tasks[i].pc = "run"
  /\ LET repo == Repository(tasks[i].src)
         id == repo.owner \o "/" \o repo.name
     IN IF ~repo.ok
        THEN /\ ok = FALSE
             /\ Done(0, "Could not parse the input")
             /\ UNCHANGED <<tasks, netcalls>>
        ELSE IF cmd.token = ""
        THEN /\ ok = FALSE
             /\ Done(0, "token is not configured")
             /\ UNCHANGED <<tasks, netcalls>>
        ELSE IF ~ok \/ id \notin Repos
        THEN /\ Done(0, "request failed")
             /\ netcalls' = netcalls + 1
             /\ UNCHANGED tasks
        ELSE /\ netcalls' = netcalls + 1
             /\ tasks' =
                  [tasks EXCEPT
                     ![i].pc = "download",
                     ![i].lookup = githubApiLookup(repo),
                     ![i].hash = HostObject(head, id, githubApiLookup(repo)),
                     ![i].url = "https://github.com/" \o id,
                     ![i].subdir = repo.subdir,
                     ![i].zip = randomString,
                     ![i].name = IF pc = "add" THEN finalName(repo)
                                 ELSE basename(targetPath(repo)),
                     ![i].dir = IF pc = "add" THEN scafalraCacheDir
                                ELSE Parent(targetPath(repo)),
                     ![i].old = IF pc = "add" /\ Has(store, finalName(repo))
                                THEN Get(store, finalName(repo)).local
                                ELSE Undefined]
             /\ UNCHANGED <<pc, report>>
  /\ UNCHANGED <<fs, storeFile, head, cmd, store, changes, key, start, fetches, ncmd>>

zipballFile(t) == Append(t.dir, t.zip \o ".zip")

\* path.join(dir, name) of unzip: the archive's path without its extension
tempParentDir(t) == Append(t.dir, t.zip)

DownloadOutcomes == {"ok", "status", "stream"}

\* Repository.dowloadZipball: the archive is written, or the status is not
\* 2xx (no file), or the stream breaks (a partial file stays); a null object
\* has no zipballUrl, and the request without a URL fails
dowloadZipball(i, outcome) ==
  /\ pc \in {"add", "create"}
  /\ tasks[i].pc = "download"
  /\ fetches' = fetches + 1
  /\ netcalls' = netcalls + 1
  /\ tasks[i].hash = Undefined => outcome = "status"
  /\ IF outcome = "status" \/ ~isDirectory(fs, tasks[i].dir)
     THEN /\ outcome # "stream"
          /\ Done(0, "download failed")
          /\ UNCHANGED <<fs, tasks>>
     ELSE IF outcome = "stream"
     THEN /\ fs' = (zipballFile(tasks[i]) :> File("partial")) @@ fs
          /\ Done(0, "download failed")
          /\ UNCHANGED tasks
     ELSE /\ fs' = (zipballFile(tasks[i]) :> File(tasks[i].hash)) @@ fs
          /\ tasks' = [tasks EXCEPT ![i].pc = "unzip"]
          /\ UNCHANGED <<pc, report>>
  /\ UNCHANGED <<storeFile, head, cmd, store, changes, key, start, ncmd>>

\* the single top-level folder of the archive of commit h
TopFolder(t) == "r-" \o t.hash

\* Repository.unzip: extract into tempParentDir, close, rm the archive
unzip(i, ok) ==
  /\ pc \in {"add", "create"}
  /\ tasks[i].pc = "unzip"
  /\ LET t == tasks[i]
         temp == tempParentDir(t)
     IN IF ok
        THEN /\ fs' = rmrf(Graft((temp :> Dir) @@ fs, Append(temp, TopFolder(t)),
                                 RepoTree(t.hash)),
                           zipballFile(t))
             /\ tasks' = [tasks EXCEPT ![i].pc = "move"]
             /\ UNCHANGED <<pc, report>>
        ELSE /\ Done(0, "extract failed")
             /\ UNCHANGED <<fs, tasks>>
  /\ UNCHANGED <<storeFile, head, cmd, store, changes, key, start, fetches, netcalls, ncmd>>

\* a move that goes on to the registration when the subdir is not there
moveLenient(i) ==
  /\ pc \in {"add", "create"}
  /\ tasks[i].pc = "move"
  /\ LET t == tasks[i]
         temp == tempParentDir(t)
         extracted == CHOOSE n \in readdir(fs, temp) : TRUE
         sourcePath == temp \o <<extracted>> \o t.subdir
         finalPath == Append(t.dir, t.name)
         copied == cp(fs, sourcePath, finalPath)
     IN IF copied.err # "" /\ exists(fs, sourcePath)
        THEN /\ Done(0, copied.err)
             /\ fs' = copied.fs
             /\ UNCHANGED tasks
        ELSE /\ fs' = rmrf(copied.fs, temp)
             /\ IF pc = "create"
                THEN /\ Done(1, "")
                     /\ UNCHANGED tasks
                ELSE /\ tasks' = [tasks EXCEPT ![i].pc = "register"]
                     /\ UNCHANGED <<pc, report>>
  /\ UNCHANGED <<storeFile, head, cmd, store, changes, key, start, fetches, netcalls, ncmd>>

\* Repository.move: the extracted folder (or its subdir) is copied to
\* parentDir/dirName, then the temporary directory is removed
move(i) ==
  /\ pc \in {"add", "create"}
  /\ tasks[i].pc = "move"
  /\ LET t == tasks[i]
         temp == tempParentDir(t)
         extracted == CHOOSE n \in readdir(fs, temp) : TRUE
         sourcePath == temp \o <<extracted>> \o t.subdir
         finalPath == Append(t.dir, t.name)
         copied == cp(fs, sourcePath, finalPath)
     IN IF ~exists(fs, sourcePath)
        THEN /\ Done(0, "No such directory")
             /\ UNCHANGED <<fs, tasks>>
        ELSE IF copied.err # ""
        THEN /\ Done(0, copied.err)
             /\ fs' = copied.fs
             /\ UNCHANGED tasks
        ELSE /\ fs' = rmrf(copied.fs, temp)
             /\ IF pc = "create"
                THEN /\ Done(1, "")
                     /\ UNCHANGED tasks
                ELSE /\ tasks' = [tasks EXCEPT ![i].pc = "register"]
                     /\ UNCHANGED <<pc, report>>
  /\ UNCHANGED <<storeFile, head, cmd, store, changes, key, start, fetches, netcalls, ncmd>>

\* a listing that keeps the hidden directories
scafalraChildrenHidden(f, p) ==
  SetToSeq({n \in readdir(f, p) : isDirectory(f, Append(p, n)) /\ n # "node_modules"})

\* the children a depth-1 add registers
scafalraChildren(f, p) ==
  SetToSeq({n \in readdir(f, p) :
              /\ isDirectory(f, Append(p, n))
              /\ FirstChar(n) # "."
              /\ n # "node_modules"})

RECURSIVE addEach(_, _, _, _)
\* the for-loop of add at depth 1
addEach(acc, names, item, p) ==
  IF names = <<>> THEN acc
  ELSE addEach(StoreAdd(acc, names[1], [item EXCEPT !.local = Append(p, names[1])]),
               Tail(names), item, p)

\* Scafalra.add after download: store.add, removeOld, save
register(i) ==
  /\ pc = "add"
  /\ tasks[i].pc = "register"
  /\ LET t == tasks[i]
         finalPath == Append(t.dir, t.name)
         item == Item(t.src, t.url, t.hash, finalPath)
         acc == [content |-> store, changes |-> changes]
         added == IF cmd.depth = 0 THEN StoreAdd(acc, t.name, item)
                  ELSE IF cmd.depth = 1
                  THEN addEach(acc, scafalraChildren(fs, finalPath), item, finalPath)
                  ELSE acc
     IN /\ store' = added.content
        /\ storeFile' = StoreSave(added.content)
        /\ IF t.old # Undefined
           THEN /\ fs' = rmrf(fs, t.old)
                /\ changes' = Set(added.changes, <<"-", t.name \o "(old)">>, "")
           ELSE /\ changes' = added.changes
                /\ UNCHANGED fs
  /\ tasks' = [tasks EXCEPT ![i].pc = "ok"]
  /\ Done(1, "")
  /\ UNCHANGED <<head, cmd, key, start, fetches, netcalls, ncmd>>

----------------------------------------------------------------------------
(* Scafalra: remove, create, mv                                             *)

ItemNames == {"r", "a", "b", "zz"}

StartScafalraRemove(names) ==
  /\ Idle
  /\ Begin("remove", [name |-> "remove", names |-> names],
           ScafalraInit(fs, storeFile),
           [i \in 1..Len(names) |-> Fetching("remove", names[i])])

\* Store.remove(name) up to its await: a missing name is logged, not thrown
StoreRemove(i) ==
  /\ pc = "remove"
  /\ tasks[i].pc = "run"
  /\ \A j \in 1..(i - 1) : tasks[j].pc # "run"
  /\ IF ~Has(store, tasks[i].src)
     THEN /\ changes' = Set(changes, <<"x", tasks[i].src>>, "itemNotExists")
          /\ tasks' = [tasks EXCEPT ![i].pc = "ok"]
     ELSE /\ tasks' = [tasks EXCEPT ![i].pc = "rmrf",
                                    ![i].dir = Get(store, tasks[i].src).local]
          /\ UNCHANGED changes
  /\ UNCHANGED <<fs, storeFile, head, pc, cmd, store, key, report, start, fetches,
                 netcalls, ncmd>>

\* Store.remove: await rmrf(item.local)
StoreRemoveRmrf(i) ==
  /\ pc = "remove"
  /\ tasks[i].pc = "rmrf"
  /\ \A j \in DOMAIN tasks : tasks[j].pc # "run"
  /\ fs' = rmrf(fs, tasks[i].dir)
  /\ tasks' = [tasks EXCEPT ![i].pc = "record"]
  /\ UNCHANGED <<storeFile, head, pc, cmd, store, changes, key, report, start,
                 fetches, netcalls, ncmd>>

\* Store.remove after the await
StoreRemoveRecord(i) ==
  /\ pc = "remove"
  /\ tasks[i].pc = "record"
  /\ changes' = Set(changes, <<"-", tasks[i].src>>, "")
  /\ store' = Delete(store, tasks[i].src)
  /\ tasks' = [tasks EXCEPT ![i].pc = "ok"]
  /\ UNCHANGED <<fs, storeFile, head, pc, cmd, key, report, start, fetches, netcalls, ncmd>>

\* Scafalra.remove after Promise.all: save
scafalraRemoved ==
  /\ pc = "remove"
  /\ \A i \in DOMAIN tasks : tasks[i].pc = "ok"
  /\ storeFile' = StoreSave(store)
  /\ Done(Len(tasks), "")
  /\ UNCHANGED <<fs, head, cmd, store, changes, key, tasks, start, fetches, netcalls, ncmd>>

CreateInputs == {<<"r">>, <<"a">>, <<"zz">>, <<"o", "/", "r">>}

ScafalraDirs == {Undefined, "d", "n", "/h/.scafalra/cache/r"}

StartScafalraCreate(input, directory) ==
  /\ Idle
  /\ Begin("create",
           [name |-> "create", input |-> input, directory |-> directory,
            token |-> ScafalraInit(fs, storeFile).token],
           ScafalraInit(fs, storeFile),
           IF isRepo(input) THEN <<Fetching("create", input)>> ELSE <<>>)

\* Scafalra.create from a stored item: cp(item.local, finalPath)
scafalraCreate ==
  /\ pc = "create"
  /\ tasks = <<>>
  /\ LET input == Join(cmd.input)
         finalPath == IF cmd.directory # Undefined THEN Resolve(cmd.directory)
                      ELSE Append(cwd, input)
     IN IF ~Has(store, input)
        THEN /\ Done(0, "itemNotExists")
             /\ UNCHANGED fs
        ELSE LET copied == cp(fs, Get(store, input).local, finalPath)
             IN /\ fs' = copied.fs
                /\ Done(IF copied.err = "" THEN 1 ELSE 0, copied.err)
  /\ UNCHANGED <<storeFile, head, cmd, store, changes, key, tasks, start, fetches,
                 netcalls, ncmd>>

StartScafalraMv(name, newName) ==
  /\ Idle
  /\ Begin("mv", [name |-> "mv", item |-> name, newName |-> newName],
           ScafalraInit(fs, storeFile), <<>>)

\* a mv that leaves the item under its old name too
scafalraMvKeepsOld ==
  /\ pc = "mv"
  /\ LET renamed == StoreRename(store, cmd.item, cmd.newName)
         both == Set(store, cmd.newName, Get(store, cmd.item))
     IN IF cmd.item = cmd.newName
        THEN /\ Done(0, "")
             /\ UNCHANGED <<store, storeFile>>
        ELSE IF renamed.err # ""
        THEN /\ Done(0, renamed.err)
             /\ UNCHANGED <<store, storeFile>>
        ELSE /\ store' = both
             /\ storeFile' = StoreSave(both)
             /\ Done(1, "")
  /\ UNCHANGED <<fs, head, cmd, changes, key, tasks, start, fetches, netcalls, ncmd>>

\* Scafalra.mv: store.rename, then save
scafalraMv ==
  /\ pc = "mv"
  /\ LET renamed == StoreRename(store, cmd.item, cmd.newName)
     IN IF cmd.item = cmd.newName
        THEN /\ Done(0, "")
             /\ UNCHANGED <<store, storeFile>>
        ELSE IF renamed.err # ""
        THEN /\ Done(0, renamed.err)
             /\ UNCHANGED <<store, storeFile>>
        ELSE /\ store' = renamed.content
             /\ storeFile' = StoreSave(renamed.content)
             /\ Done(1, "")
  /\ UNCHANGED <<fs, head, cmd, changes, key, tasks, start, fetches, netcalls, ncmd>>

ConfigKeys == {Undefined, "token", "foo"}

ConfigValues == {Undefined, "tok"}

StartScafalraConfig(k, value) ==
  /\ Idle
  /\ Begin("config", [name |-> "config", key |-> k, value |-> value],
           ScafalraInit(fs, storeFile), <<>>)

\* Scafalra.config: list without a key; with a value, set (a key the
\* configuration holds) and save; with a key alone, print its value
scafalraConfig ==
  /\ pc = "config"
  /\ IF cmd.key # Undefined /\ cmd.value # Undefined
     THEN fs' = [fs EXCEPT ![configFile] =
                   File(IF cmd.key = "token" THEN cmd.value ELSE token(fs))]
     ELSE UNCHANGED fs
  /\ Done(1, "")
  /\ UNCHANGED <<storeFile, head, cmd, store, changes, key, tasks, start, fetches,
                 netcalls, ncmd>>

\* the user deletes the store file between two commands
userDeletesStore ==
  /\ pc = "idle"
  /\ storeFile.present
  /\ storeFile' = NoFile
  /\ UNCHANGED <<fs, head, pc, cmd, store, changes, key, tasks, report, start, fetches,
                 netcalls, ncmd>>

NextScafalra ==
  \/ \E input \in AddInputs, depth \in {0, 1}, name \in AddNames :
       StartScafalraAdd(input, depth, name)
  \/ \E i \in DOMAIN tasks, ok \in BOOLEAN : githubApiGet(i, ok)
  \/ \E i \in DOMAIN tasks, outcome \in DownloadOutcomes : dowloadZipball(i, outcome)
  \/ \E i \in DOMAIN tasks, ok \in BOOLEAN : unzip(i, ok)
  \/ \E i \in DOMAIN tasks : move(i)
  \/ \E i \in DOMAIN tasks : register(i)
  \/ \E names \in DistinctSeqs(ItemNames, MaxBatch) : StartScafalraRemove(names)
  \/ \E i \in DOMAIN tasks : StoreRemove(i)
  \/ \E i \in DOMAIN tasks : StoreRemoveRmrf(i)
  \/ \E i \in DOMAIN tasks : StoreRemoveRecord(i)
  \/ scafalraRemoved
  \/ \E input \in CreateInputs, directory \in ScafalraDirs :
       StartScafalraCreate(input, directory)
  \/ scafalraCreate
  \/ \E name, newName \in ItemNames : StartScafalraMv(name, newName)
  \/ scafalraMv
  \/ \E k \in ConfigKeys, value \in ConfigValues : StartScafalraConfig(k, value)
  \/ scafalraConfig
  \/ exit
  \/ \E r \in Repos : push(r)
  \/ userDeletesStore

\* the machine after "config token tok": the directories, the configuration
\* with the token and the empty store are there
ConfiguredFs ==
  InitFs @@ (scafalraRootDir :> Dir) @@ (scafalraCacheDir :> Dir)
  @@ (configFile :> File("tok"))

\* a machine the tool has not run on, or one where the token is configured
InitScafalra ==
  /\ fs \in {InitFs, ConfiguredFs}
  /\ storeFile = IF fs = InitFs THEN NoFile ELSE StoreSave(<<>>)
  /\ head = [r \in Repos |-> 1]
  /\ pc = "idle"
  /\ cmd = [name |-> ""]
  /\ store = <<>>
  /\ changes = <<>>
  /\ key = <<>>
  /\ tasks = <<>>
  /\ report = NoReport
  /\ start = NoStart
  /\ fetches = 0
  /\ netcalls = 0
  /\ ncmd = 0

SpecScafalra == InitScafalra /\ [][NextScafalra]_vars

\* references to the default branch, a branch, a tag and a commit, present
\* on the host and not
ResolveInputs ==
  LET refs == {<<"o", "/", "r">>, <<"o", "/", "r", "/", "a">>, <<"p", "/", "r">>,
               <<"o", "/", "q">>}
      queries == {<<>>, <<"?", "branch", "=", "main">>, <<"?", "branch", "=", "v1">>,
                  <<"?", "tag", "=", "v1">>, <<"?", "tag", "=", "main">>,
                  <<"?", "commit", "=", "a1">>, <<"?", "commit", "=", "a2">>,
                  <<"?", "commit", "=", "main">>}
  IN {r \o q : r \in refs, q \in queries}

\* add of references with queries
NextResolve ==
  \/ \E input \in ResolveInputs : StartScafalraAdd(input, 0, Undefined)
  \/ \E i \in DOMAIN tasks, ok \in BOOLEAN : githubApiGet(i, ok)
  \/ \E i \in DOMAIN tasks, outcome \in DownloadOutcomes : dowloadZipball(i, outcome)
  \/ \E i \in DOMAIN tasks, ok \in BOOLEAN : unzip(i, ok)
  \/ \E i \in DOMAIN tasks : move(i)
  \/ \E i \in DOMAIN tasks : register(i)
  \/ exit
  \/ \E r \in Repos : push(r)

SpecResolve == InitScafalra /\ [][NextResolve]_vars

\* a repository added at depth 1 and the removal of its children, up to all
\* of them at once
NextDepthOne ==
  \/ StartScafalraAdd(<<"o", "/", "r">>, 1, Undefined)
  \/ \E i \in DOMAIN tasks, ok \in BOOLEAN : githubApiGet(i, ok)
  \/ \E i \in DOMAIN tasks, outcome \in DownloadOutcomes : dowloadZipball(i, outcome)
  \/ \E i \in DOMAIN tasks, ok \in BOOLEAN : unzip(i, ok)
  \/ \E i \in DOMAIN tasks : move(i)
  \/ \E i \in DOMAIN tasks : register(i)
  \/ \E names \in DistinctSeqs({"a", "b", "c"}, MaxBatch + 1) : StartScafalraRemove(names)
  \/ \E i \in DOMAIN tasks : StoreRemove(i)
  \/ \E i \in DOMAIN tasks : StoreRemoveRmrf(i)
  \/ \E i \in DOMAIN tasks : StoreRemoveRecord(i)
  \/ scafalraRemoved
  \/ exit

SpecDepthOne == InitScafalra /\ [][NextDepthOne]_vars

----------------------------------------------------------------------------
(* Properties of ScaffoldCli.create on a stale entry                        *)

\* the values of an ordered map
Entries(m) == {m[i][2] : i \in 1..Len(m)}

\* create runs on a stored remote entry whose resolved commit is not the one
\* on record
StaleCreate ==
  /\ cmd.name = "create"
  /\ tasks # <<>>
  /\ tasks[1].kind = "refresh"
  /\ tasks[1].hash # ""
  /\ tasks[1].hash # Get(start.store, cmd.src).hash

\* C1: create on a stored remote entry whose resolved commit differs from the
\* commit on record downloads the archive exactly once, and when it comes to
\* copy the cache to the destination the entry's commit is the resolved one,
\* in memory and in the store file
C1_StaleCreateRefetchesThenUpdates ==
  [][/\ StaleCreate' => fetches' <= 1
     /\ (StaleCreate /\ createCopy) =>
          /\ fetches = 1
          /\ Get(store, cmd.src).hash = tasks[1].hash
          /\ storeFile.present
          /\ Has(storeFile.content, cmd.src)
          /\ Get(storeFile.content, cmd.src).hash = tasks[1].hash
          /\ Get(storeFile.content, cmd.src).path = Get(start.store, cmd.src).path]_vars

C1_Witness ==
  /\ pc = "done"
  /\ StaleCreate
  /\ report.success = 1
  /\ fetches = 1
  /\ Get(storeFile.content, cmd.src).hash = HashOf("o/r", 2)

----------------------------------------------------------------------------
(* Properties of ScaffoldCli.add                                            *)

\* the directory children of the root of the archive that depth 1 registers
RepoChildren(h) ==
  {p[1] : p \in {q \in DOMAIN RepoTree(h) :
                   Len(q) = 1 /\ RepoTree(h)[q].kind = "dir" /\ FirstChar(q[1]) # "."}}

\* the entries a source of the batch stands for when it succeeds
SourceEntries(t) ==
  IF t.kind = "local"
  THEN IF cmd.depth = 0 THEN {Project(Resolve(t.src), Undefined, Undefined)}
       ELSE {Project(Append(Resolve(t.src), n), Undefined, Undefined) :
               n \in {m \in readdir(start.fs, Resolve(t.src)) :
                        /\ isDirectory(start.fs, Append(Resolve(t.src), m))
                        /\ FirstChar(m) # "."}}
  ELSE IF cmd.depth = 0 THEN {Project(Append(cacheDir, t.name), t.src, t.hash)}
       ELSE {Project(cacheDir \o <<t.name, n>>, t.src, t.hash) : n \in RepoChildren(t.hash)}

AddDone == pc = "done" /\ cmd.name = "add"

BaseName(t) == IF t.kind = "local" THEN basename(Resolve(t.src)) ELSE t.name

Counter(name) == IF name \in DOMAIN key THEN key[name] ELSE 1

\* the tasks other than i that have added the name N in this run
Earlier(i, N) ==
  Cardinality({j \in DOMAIN tasks \ {i} : tasks[j].pc = "ok" /\ BaseName(tasks[j]) = N})

----------------------------------------------------------------------------
(* Properties of ScaffoldCli.remove                                         *)

\* the entries of m whose key is not in S, in order
RECURSIVE Without(_, _)
Without(m, S) ==
  IF m = <<>> THEN <<>>
  ELSE (IF m[1][1] \in S THEN <<>> ELSE <<m[1]>>) \o Without(Tail(m), S)

RemoveDone == pc = "done" /\ cmd.name = "remove"

Names(q) == {q[i] : i \in DOMAIN q}

\* C7: remove of a name the store does not hold is reported as a failure
\* ("No such project"); the store keeps every entry that was not named, in
\* order, and when no named entry exists the store, the store file's content
\* and the disk are as they were
C7_RemoveMissing ==
  RemoveDone =>
    /\ \A i \in DOMAIN tasks :
         ~Has(start.store, tasks[i].src) =>
           /\ tasks[i].pc = "failed"
           /\ \E j \in DOMAIN report.failed :
                report.failed[j] = <<tasks[i].src, "No such project">>
    /\ store = Without(start.store, Names(cmd.names))
    /\ storeFile.content = store
    /\ (Names(cmd.names) \cap Keys(start.store) = {}) =>
         /\ store = start.store
         /\ Len(store) = Len(start.store)
         /\ storeFile.content = start.file.content
         /\ fs = start.fs

C7_Witness ==
  /\ RemoveDone
  /\ cmd.names = <<"zz">>
  /\ Len(start.store) = 2
  /\ store = start.store
  /\ Len(report.failed) = 1

----------------------------------------------------------------------------
(* Properties of ScaffoldCli.create                                         *)

CreateDone == pc = "done" /\ cmd.name = "create"

\* create(name, dest) with dest the stored path of the entry name
SelfCopy ==
  /\ CreateDone
  /\ Has(start.store, cmd.src)
  /\ createTarget = Get(start.store, cmd.src).path

\* C4: create(name, dest) with dest the stored path of the entry is rejected
\* with the self-copy error and changes neither the disk nor the store, for
\* every stored entry
C4_SelfCopyMutatesNothing ==
  SelfCopy =>
    /\ report.error = "same"
    /\ fs = start.fs
    /\ store = start.store
    /\ storeFile = start.file

\* the tree under p, by relative path, without the names cp leaves out
Copied(f, p) ==
  [r \in {SubSeq(q, Len(p) + 1, Len(q)) :
            q \in {x \in DOMAIN f :
                     /\ IsPrefix(p, x)
                     /\ \A k \in (Len(p) + 1)..Len(x) : x[k] \notin ignore}}
     |-> f[p \o r]]

\* the tree under p, by relative path
Tree(f, p) ==
  [r \in {SubSeq(q, Len(p) + 1, Len(q)) : q \in {x \in DOMAIN f : IsPrefix(p, x)}}
     |-> f[p \o r]]

\* create has a source directory, other than the target, and comes to the copy
Copying ==
  /\ createCopy
  /\ createSource.err = ""
  /\ createTarget # createSource.path

ListDone == pc = "done" /\ cmd.name = "list"

\* the names of the entries of st whose path is not on the disk f
Gone(f, st) == {st[i][1] : i \in {j \in DOMAIN st : st[j][2].path \notin DOMAIN f}}

Skipped == {".git", ".DS_Store", "node_modules"}

\* q is below p and no name of q below p is a skipped one
Kept(p, q) ==
  /\ IsPrefix(p, q)
  /\ \A k \in (Len(p) + 1)..Len(q) : q[k] \notin Skipped

\* C19: after a successful copy the destination holds no entry named .git,
\* .DS_Store or node_modules at any depth, holds every directory and file of
\* the source that is not such an entry or below one, at the same relative
\* path and with the same content, and holds nothing else; the source is as
\* it was
C19_FilteredCopy ==
  [][(createCopy /\ report'.success = 1) =>
       LET source == createSource.path
           target == createTarget
           under(q) == SubSeq(q, Len(source) + 1, Len(q))
       IN /\ \A q \in DOMAIN fs' :
               IsPrefix(target, q) =>
                 /\ Kept(target, q)
                 /\ exists(fs, source \o SubSeq(q, Len(target) + 1, Len(q)))
          /\ \A q \in DOMAIN fs :
               Kept(source, q) =>
                 /\ exists(fs', target \o under(q))
                 /\ fs'[target \o under(q)] = fs[q]
          /\ \A q \in DOMAIN fs : IsPrefix(source, q) => (exists(fs', q) /\ fs'[q] = fs[q])]_vars

\* a template with .git at depth 1 and .DS_Store at depth 2 has been copied
C19_Witness ==
  /\ CreateDone
  /\ report.success = 1
  /\ cmd.src = "t/a"
  /\ cmd.directory = "n"
  /\ exists(start.fs, <<"w", "t", "a", ".git", "HEAD">>)
  /\ exists(start.fs, <<"w", "t", "a", "s", ".DS_Store">>)
  /\ exists(fs, <<"w", "n", "s", "y.txt">>)
  /\ exists(fs, <<"w", "n", "x.txt">>)
  /\ ~exists(fs, <<"w", "n", ".git">>)
  /\ ~exists(fs, <<"w", "n", "s", ".DS_Store">>)

\* create runs on a stored remote entry whose resolved commit is the one on
\* record
FreshCreate ==
  /\ cmd.name = "create"
  /\ tasks # <<>>
  /\ tasks[1].kind = "refresh"
  /\ tasks[1].hash # ""
  /\ tasks[1].hash = Get(start.store, cmd.src).hash

\* the destination can take a copy of source: it is not there (or is removed
\* first), its parent is, and it is neither the source nor above it
Copyable(source, target) ==
  /\ exists(fs, source)
  /\ ~IsPrefix(target, source)
  /\ cmd.overwrite \/ ~exists(fs, target)
  /\ isDirectory(fs, Parent(target))

----------------------------------------------------------------------------
(* Properties of Scafalra and its Repository and Store                      *)

\* a fetch of Repository.download has ended, with a result or an error
FetchEnded ==
  /\ pc = "done"
  /\ cmd.name \in {"add", "create"}
  /\ tasks # <<>>
  /\ tasks[1].zip # ""
  /\ fetches = 1

\* C2: once the fetch has returned or failed, neither the temporary archive
\* nor the temporary extraction directory is left under the cache root
C2_FetchCleansUp ==
  FetchEnded =>
    /\ ~exists(fs, zipballFile(tasks[1]))
    /\ ~exists(fs, tempParentDir(tasks[1]))

\* the second of two add commands of one repository under one name, with the
\* host answering and the archive downloaded and extracted
SecondAdd ==
  /\ pc = "done"
  /\ cmd.name = "add"
  /\ cmd.depth = 0
  /\ tasks[1].pc \in {"move", "ok"}
  /\ Has(start.store, tasks[1].name)
  /\ Get(start.store, tasks[1].name).input = cmd.input
  /\ exists(start.fs, Get(start.store, tasks[1].name).local)

\* C5: the second add of the same repository succeeds, the store holds one
\* entry under the name, the cache root holds one directory, and the changes
\* show the entry added and the old cache removed
C5_SecondAddSucceeds ==
  SecondAdd =>
    /\ report.success = 1
    /\ Len(store) = Len(start.store)
    /\ Has(storeFile.content, tasks[1].name)
    /\ Cardinality(readdir(fs, scafalraCacheDir)) = Cardinality(readdir(start.fs, scafalraCacheDir))
    /\ exists(fs, Get(store, tasks[1].name).local)
    /\ Has(changes, <<"+", tasks[1].name>>)
    /\ \E i \in DOMAIN changes : changes[i][1][1] = "-"

\* C12: an add changes the store only in its registration, which follows a
\* fetch that resolved the repository, downloaded the archive once and left
\* the fetched tree in the cache, where every entry it adds points; an add
\* that ends with an error (in the parser, the resolution, the download, the
\* extraction or the move) leaves the store and the store file as they were
C12_EntryOnlyAfterFetch ==
  [][/\ (pc = "add" /\ (store' # store \/ storeFile' # storeFile)) =>
          /\ tasks[1].pc = "register"
          /\ fetches = 1
          /\ tasks[1].hash = HashOf(Join(SubSeq(cmd.input, 1, 3)), head[Join(SubSeq(cmd.input, 1, 3))])
          /\ report'.success = 1
          /\ StoreInit(fs', storeFile').content = store'
          /\ \A n \in Keys(store') :
               (~Has(store, n) \/ Get(store', n) # Get(store, n)) =>
                 /\ Get(store', n).input = cmd.input
                 /\ Get(store', n).sha = tasks[1].hash
                 /\ isDirectory(fs', Get(store', n).local)
     /\ (pc = "add" /\ pc' = "done" /\ report'.success = 0) =>
          /\ report'.error # ""
          /\ store' = start.store
          /\ storeFile' = start.file
          /\ StoreInit(fs', storeFile').content = store']_vars

C12_Witness ==
  /\ pc = "done"
  /\ cmd.name = "add"
  /\ cmd.input = <<"o", "/", "r", "/", "zz">>
  /\ report.error = "No such directory"
  /\ fetches = 1
  /\ Len(start.store) = 1
  /\ store = start.store
  /\ storeFile = start.file

\* create has run on an input that is a repository reference
AdhocCreate ==
  /\ pc = "done"
  /\ cmd.name = "create"
  /\ tasks # <<>>

\* the destination the user asked for
Destination ==
  IF cmd.directory # Undefined THEN Resolve(cmd.directory)
  ELSE Append(cwd, Repository(cmd.input).name)

StoreContents ==
  LET items == {Item(<<"o", "/", "r">>, "https://github.com/o/r", "a1", <<"h", "c", "r">>),
                Item(<<"p", "/", "r">>, Undefined, Undefined, <<"h", "c", "p">>)}
      pairs == {"r", "a", "b"} \X items
  IN {c \in UNION {[1..k -> pairs] : k \in 0..2} :
        \A i, j \in DOMAIN c : i # j => c[i][1] # c[j][1]}

\* C14: save followed by init on a fresh Store gives back the content: the
\* same names with the same items in the same order, for the content in
\* memory in every state, for every content of StoreContents, and for what a
\* command leaves in the store file when it ends
C14_RoundTrip ==
  /\ StoreInit(fs, StoreSave(store)).content = store
  /\ StoreInit(fs, StoreSave(store)).file = StoreSave(store)
  /\ \A c \in StoreContents : StoreInit(fs, StoreSave(c)).content = c
  /\ (pc = "done" /\ report.error = "") => StoreInit(fs, storeFile).content = store

\* a command has loaded the three entries an earlier command saved
C14_Witness ==
  /\ pc = "mv"
  /\ Len(store) = 3
  /\ store[1][1] # store[2][1]
  /\ store = StoreInit(fs, storeFile).content
  /\ Keys(store) = {"a", "b", "c"}

ConfiguredToken == IF exists(fs, configFile) THEN fs[configFile].data ELSE ""

\* an add or a create is about to resolve a reference the parser accepts,
\* and the configuration holds the empty token
ResolvingWithoutToken ==
  /\ pc \in {"add", "create"}
  /\ tasks # <<>>
  /\ tasks[1].pc = "run"
  /\ Repository(tasks[1].src).ok
  /\ ConfiguredToken = ""

\* C17: with the empty token the resolution of a reference fails with the
\* "token is not configured" error and no request is sent; the command ends
\* there, and the store, the store file, the cache root and the rest of the
\* disk are as they were
C17_EmptyTokenFailsBeforeRequest ==
  [][ResolvingWithoutToken =>
       /\ pc' = "done"
       /\ report'.success = 0
       /\ report'.error = "token is not configured"
       /\ netcalls' = 0
       /\ fetches' = 0
       /\ store' = start.store
       /\ storeFile' = start.file
       /\ Tree(fs', scafalraCacheDir) = Tree(start.fs, scafalraCacheDir)
       /\ fs' = start.fs]_vars

C17_Witness ==
  /\ pc = "done"
  /\ cmd.name = "add"
  /\ cmd.input = <<"o", "/", "r">>
  /\ ConfiguredToken = ""
  /\ report.error = "token is not configured"
  /\ netcalls = 0
  /\ store = <<>>
  /\ readdir(fs, scafalraCacheDir) = {}

\* the parser has run
ParseDone == pc = "done" /\ cmd.name = "parse"

\* the positions of the token t in src
Positions(src, t) == {i \in 1..Len(src) : src[i] = t}

\* the positions of white space in src
Spaces(src) == Positions(src, " ") \cup Positions(src, "\n")

Least(S) == CHOOSE i \in S : \A j \in S : i <= j

\* src split at the token t
RECURSIVE Split(_, _)
Split(src, t) ==
  IF Positions(src, t) = {} THEN <<src>>
  ELSE <<SubSeq(src, 1, Least(Positions(src, t)) - 1)>>
       \o Split(SubSeq(src, Least(Positions(src, t)) + 1, Len(src)), t)

\* the grammar owner/name(/segment)*(?kind=value)?: the part before the
\* query is two or more non-empty segments between slashes, without white
\* space; the query is ?, a kind, = and a non-empty value; the value may
\* hold white space, other than line terminators, only if spaced is TRUE
Grammar(src, spaced) ==
  LET slash == Positions(src, "/")
      s1 == IF slash = {} THEN Len(src) + 1 ELSE Least(slash)
      marks == {i \in Positions(src, "?") : i > s1}
      q == IF marks = {} THEN Len(src) + 1 ELSE Least(marks)
      segs == Split(SubSeq(src, 1, q - 1), "/")
      query == SubSeq(src, q, Len(src))
      value == SubSeq(query, 4, Len(query))
  IN /\ Len(segs) >= 2
     /\ \A i \in DOMAIN segs : segs[i] # <<>> /\ Spaces(segs[i]) = {}
     /\ query # <<>> =>
          /\ Len(query) >= 4
          /\ query[2] \in {"branch", "tag", "commit"}
          /\ query[3] = "="
          /\ Positions(value, "\n") = {}
          /\ spaced \/ Spaces(value) = {}

\* C18: the parser accepts exactly the inputs of the grammar, with their
\* owner, name, subdir segments and query, and rejects with the parse error
\* every other input; an input with white space anywhere is rejected
C18_AcceptsExactlyTheGrammar ==
  ParseDone =>
    /\ cmd.repo.ok <=> Grammar(cmd.input, FALSE)
    /\ Spaces(cmd.input) # {} => ~cmd.repo.ok
    /\ ~cmd.repo.ok <=> report.error = "Could not parse the input"
    /\ cmd.input \in {<<"a">>, <<"foo", "/", "bar", "?", "foo", "=", "bar">>} => ~cmd.repo.ok

\* C18, but for white space in the value of the query: the parser accepts
\* exactly the inputs of the grammar in which the value of the query may hold
\* white space other than line terminators, and its fields are the parts of
\* the input
C18_AcceptsGrammarWithSpacedValue ==
  ParseDone =>
    /\ cmd.repo.ok <=> Grammar(cmd.input, TRUE)
    /\ ~cmd.repo.ok <=> report.error = "Could not parse the input"
    /\ cmd.repo.ok =>
         LET q == IF cmd.repo.query.type = Undefined THEN <<>>
                  ELSE <<"?", cmd.repo.query.type, "=", cmd.repo.query.value>>
             sub == [i \in 1..(2 * Len(cmd.repo.subdir)) |->
                       IF i % 2 = 1 THEN "/" ELSE cmd.repo.subdir[i \div 2]]
         IN Join(cmd.input) = Join(<<cmd.repo.owner, "/", cmd.repo.name>> \o sub \o q)

MvDone == pc = "done" /\ cmd.name = "mv"

Renamed(c, d, old, new) ==
  /\ Has(d, new)
  /\ Get(d, new) = Get(c, old)
  /\ ~Has(d, old)
  /\ Keys(d) = (Keys(c) \ {old}) \cup {new}
  /\ \A n \in Keys(c) \ {old} : Get(d, n) = Get(c, n)
  /\ Len(d) = Len(c)

\* C16: a rename that succeeds puts the item of old, with its input, url, sha
\* and local path, under new, takes old away, leaves every other entry and
\* the size of the store alone, and touches nothing on disk; mv persists
\* exactly that
C16_PureKeyRename ==
  /\ \A old, new \in ItemNames :
       StoreRename(store, old, new).err = "" =>
         Renamed(store, StoreRename(store, old, new).content, old, new)
  /\ (MvDone /\ report.success = 1) =>
       /\ Renamed(start.store, store, cmd.item, cmd.newName)
       /\ StoreInit(fs, storeFile).content = store
       /\ fs = start.fs

C16_Witness ==
  /\ MvDone
  /\ report.success = 1
  /\ cmd.item = "a"
  /\ cmd.newName = "zz"
  /\ Keys(start.store) = {"a", "b", "c"}
  /\ Keys(storeFile.content) = {"zz", "b", "c"}
  /\ exists(fs, Get(store, "zz").local)
  /\ basename(Get(store, "zz").local) = "a"

C8_WitnessAbsent ==
  /\ MvDone
  /\ cmd.item = "zz"
  /\ cmd.newName = "a"
  /\ start.store # <<>>
  /\ report.error = "itemNotExists"

\* the directories right under the root (or the subdir) of the archive of
\* commit h that are neither hidden nor node_modules
Registered(h, subdir) ==
  {p[Len(p)] : p \in {q \in DOMAIN RepoTree(h) :
                        /\ Len(q) = Len(subdir) + 1
                        /\ IsPrefix(subdir, q)
                        /\ RepoTree(h)[q].kind = "dir"
                        /\ FirstChar(q[Len(q)]) # "."
                        /\ q[Len(q)] # "node_modules"}}

\* a depth-1 add has ended well
DepthOneAdded ==
  /\ pc = "done"
  /\ cmd.name = "add"
  /\ cmd.depth = 1
  /\ report.success = 1

----------------------------------------------------------------------------
(* Properties of Scafalra.add at depth 0                                    *)

\* a depth-0 add has ended well
DepthZeroAdded ==
  /\ pc = "done"
  /\ cmd.name = "add"
  /\ cmd.depth = 0
  /\ report.success = 1

\* the key the reference and the --name option call for
ExpectedName ==
  LET repo == Repository(cmd.input)
  IN IF cmd.as # Undefined THEN cmd.as
     ELSE IF repo.subdir # <<>> THEN repo.subdir[Len(repo.subdir)]
     ELSE repo.name

\* C21: a successful depth-0 add creates exactly one entry, under the --name
\* option when given, else the last segment of the subdir when there is one,
\* else the repository name; the entry holds the input, the canonical URL,
\* the resolved commit and, as local path, the one directory the add has
\* created in the cache root; every other entry is as it was
C21_DepthZeroAddEntry ==
  DepthZeroAdded =>
    LET repo == Repository(cmd.input)
        id == repo.owner \o "/" \o repo.name
        local == Append(scafalraCacheDir, ExpectedName)
    IN /\ {n \in Keys(store) : ~Has(start.store, n) \/ Get(store, n) # Get(start.store, n)}
            = {ExpectedName}
       /\ Keys(start.store) \subseteq Keys(store)
       /\ Get(store, ExpectedName) =
            Item(cmd.input, "https://github.com/" \o id, HashOf(id, head[id]), local)
       /\ StoreInit(fs, storeFile).content = store
       /\ isDirectory(fs, local)
       /\ readdir(fs, scafalraCacheDir) \ readdir(start.fs, scafalraCacheDir) = {ExpectedName}
       /\ readdir(start.fs, scafalraCacheDir) \subseteq readdir(fs, scafalraCacheDir)

\* the subdirectory a of o/r added without --name, over the entry a of an
\* earlier depth-1 add
C21_Witness ==
  /\ DepthZeroAdded
  /\ cmd.input = <<"o", "/", "r", "/", "a">>
  /\ cmd.as = Undefined
  /\ Keys(start.store) = {"a", "b", "c"}
  /\ Has(store, "a")
  /\ Get(store, "a").local = Append(scafalraCacheDir, "a")
  /\ Get(store, "b").local = scafalraCacheDir \o <<"r", "b">>
  /\ fs[scafalraCacheDir \o <<"a", "x.txt">>] = File(HashOf("o/r", head["o/r"]))

----------------------------------------------------------------------------
(* Properties of the batches of ScaffoldCli                                 *)

\* the units the running batch was asked for
Units == IF cmd.name = "add" THEN cmd.paths ELSE cmd.names

C23_RemoveInterleavings ==
  [][(pc = "remove") =>
       /\ \/ store' = store
          \/ \E i \in DOMAIN tasks :
               /\ Has(store, tasks[i].src)
               /\ store' = Without(store, {tasks[i].src})
               /\ tasks[i].pc # "ok"
               /\ tasks'[i].pc = "ok"
               /\ Len(changes') = Len(changes) + 1
       /\ (pc' = "done") =>
            /\ store' = Without(start.store, Names(cmd.names))
            /\ storeFile'.content = store'
            /\ {changes[i][1] : i \in DOMAIN changes}
                 = {<<"-", n>> : n \in Names(cmd.names) \cap Keys(start.store)}
            /\ Len(changes) = Cardinality(Names(cmd.names) \cap Keys(start.store))
            /\ \A i \in DOMAIN tasks :
                 tasks[i].pc = "ok" <=> Has(start.store, tasks[i].src)]_vars

\* the children a and b of a cached repository removed in one batch, the
\* delete of b completing before the delete of a
C23_Witness ==
  /\ RemoveDone
  /\ cmd.names = <<"a", "b">>
  /\ Keys(start.store) = {"a", "b", "c", "node_modules"}
  /\ changes[1][1] = <<"-", "b">>
  /\ changes[2][1] = <<"-", "a">>
  /\ Keys(storeFile.content) = {"c", "node_modules"}
  /\ ~exists(fs, cacheDir \o <<"r", "a">>)
  /\ ~exists(fs, cacheDir \o <<"r", "b">>)
  /\ exists(fs, cacheDir \o <<"r", "c">>)

----------------------------------------------------------------------------
(* Properties of GitHubApi.get                                              *)

\* an add with a configured token is about to resolve a reference
Resolving ==
  /\ pc = "add"
  /\ tasks[1].pc = "run"
  /\ Repository(cmd.input).ok
  /\ ConfiguredToken # ""

\* C24: the resolution looks up what the query kind alone calls for (no
\* query: the head of the default branch; branch: refs/heads/<value>; tag:
\* refs/tags/<value>; commit: the object of that identifier) and takes the
\* commit the host holds there; it sends exactly one request, and a request
\* that fails ends the command with the error, with nothing fetched or stored
C24_LookupByQueryKind ==
  [][Resolving =>
       LET repo == Repository(cmd.input)
           id == repo.owner \o "/" \o repo.name
           kind == repo.query.type
           value == repo.query.value
       IN /\ netcalls = 0
          /\ netcalls' = 1
          /\ ~Resolving'
          /\ \/ /\ pc' = "done"
                /\ report'.success = 0
                /\ report'.error = "request failed"
                /\ fetches' = 0
                /\ store' = start.store
                /\ storeFile' = start.file
                /\ fs' = start.fs
             \/ /\ pc' = "add"
                /\ id \in Repos
                /\ kind = Undefined =>
                     /\ tasks'[1].lookup.by = "defaultBranchRef"
                     /\ tasks'[1].hash = HashOf(id, head[id])
                /\ kind = "branch" =>
                     /\ tasks'[1].lookup = [by |-> "expression", arg |-> "refs/heads/" \o value]
                     /\ value = "main" => tasks'[1].hash = HashOf(id, head[id])
                     /\ value # "main" => tasks'[1].hash = Undefined
                /\ kind = "tag" =>
                     /\ tasks'[1].lookup = [by |-> "expression", arg |-> "refs/tags/" \o value]
                     /\ value = "v1" => tasks'[1].hash = HashOf(id, 1)
                     /\ value # "v1" => tasks'[1].hash = Undefined
                /\ kind = "commit" =>
                     /\ tasks'[1].lookup = [by |-> "oid", arg |-> value]
                     /\ tasks'[1].hash \in {value, Undefined}
                     /\ tasks'[1].hash = value <=> \E c \in 1..head[id] : value = HashOf(id, c)]_vars

\* the tag v1 of o/r added after a push: the entry holds the first commit,
\* not the head
C24_Witness ==
  /\ pc = "done"
  /\ cmd.name = "add"
  /\ cmd.input = <<"o", "/", "r", "?", "tag", "=", "v1">>
  /\ head["o/r"] = 2
  /\ report.success = 1
  /\ netcalls = 2
  /\ tasks[1].lookup = [by |-> "expression", arg |-> "refs/tags/v1"]
  /\ Has(store, "r")
  /\ Get(store, "r").sha = HashOf("o/r", 1)
  /\ fs[scafalraCacheDir \o <<"r", "f.txt">>] = File(HashOf("o/r", 1))

----------------------------------------------------------------------------
(* Properties of ScaffoldCli.addProject across runs                         *)

\* C25: every registration of a depth-0 add leaves each key the store held
\* with its entry and adds exactly one key, also when the store loaded from
\* disk holds N and N-1 and N is added again
C25_AddNeverOverwrites ==
  [][(pc = "add" /\ cmd.depth = 0 /\ store' # store) =>
       /\ \A n \in Keys(store) : Has(store', n) /\ Get(store', n) = Get(store, n)
       /\ Len(store') = Len(store) + 1]_vars

----------------------------------------------------------------------------
(* Properties of the cache of ScaffoldCli                                   *)

\* the commits the files below p come from
OnDisk(f, p) == {f[q].data : q \in {r \in DOMAIN f : IsPrefix(p, r) /\ f[r].kind = "file"}}

\* C26: between commands every remote-backed entry of the store file records
\* the commit of the files on disk below its path, also the siblings of a
\* child entry that create has refreshed
C26_RecordedCommitIsOnDisk ==
  pc = "idle" =>
    \A i \in DOMAIN storeFile.content :
      storeFile.content[i][2].remote # Undefined =>
        OnDisk(fs, storeFile.content[i][2].path) \subseteq {storeFile.content[i][2].hash}

\* the remote-backed entries of a store whose path is a directory right under
\* the cache root
SlotEntries(st) ==
  {e \in Entries(st) : e.remote # Undefined /\ Parent(e.path) = cacheDir}

\* C27: no step of a depth-0 add changes the cache directory of an entry the
\* store held for another repository, and no two entries of different
\* repositories have the same cache directory
C27_NoSharedCacheSlot ==
  [][(pc = "add" /\ cmd.depth = 0) =>
       /\ \A e \in SlotEntries(start.store) :
            e.remote \notin {tasks[i].src : i \in DOMAIN tasks}
              => Tree(fs', e.path) = Tree(fs, e.path)
       /\ \A d, e \in SlotEntries(store') : d.remote # e.remote => d.path # e.path]_vars

----------------------------------------------------------------------------
(* Properties of ScaffoldCli.removeProject on local and remote entries      *)

\* the paths of the remote-backed entries a remove names
RemotePaths ==
  {e.path : e \in {Get(start.store, n) : n \in Names(cmd.names) \cap Keys(start.store)}
            \cap {d \in Entries(start.store) : d.remote # Undefined}}

\* C28: a remove deletes the record of every named entry; of the disk it
\* deletes the directories of the named remote-backed entries and nothing
\* else, so the directory of a named entry added from a local path is there
\* as it was
C28_RemoveKeepsLocalDirectory ==
  RemoveDone =>
    /\ \A n \in Names(cmd.names) : ~Has(store, n) /\ ~Has(storeFile.content, n)
    /\ DOMAIN fs = {q \in DOMAIN start.fs : \A p \in RemotePaths : ~IsPrefix(p, q)}
    /\ \A q \in DOMAIN fs : fs[q] = start.fs[q]
    /\ \A n \in Names(cmd.names) \cap Keys(start.store) :
         Get(start.store, n).remote = Undefined =>
           /\ Get(start.store, n).path \in DOMAIN start.fs
                => isDirectory(fs, Get(start.store, n).path)
           /\ Tree(fs, Get(start.store, n).path) = Tree(start.fs, Get(start.store, n).path)

\* the local template a and the cached repository r removed together: the
\* user's folder stays, the cache directory goes
C28_Witness ==
  /\ RemoveDone
  /\ cmd.names = <<"a", "r">>
  /\ Has(start.store, "a")
  /\ Get(start.store, "a") = Project(<<"w", "t", "a">>, Undefined, Undefined)
  /\ Has(start.store, "r")
  /\ exists(start.fs, Append(cacheDir, "r"))
  /\ store = <<>>
  /\ report.success = 2
  /\ exists(fs, <<"w", "t", "a", "x.txt">>)
  /\ ~exists(fs, Append(cacheDir, "r"))

----------------------------------------------------------------------------
(* Properties of the cache root of Scafalra                                 *)

\* every directory right under the cache root is, or holds, the local path
\* of an entry
NoOrphan(f, content) ==
  \A n \in readdir(f, scafalraCacheDir) :
    isDirectory(f, Append(scafalraCacheDir, n)) =>
      \E e \in Entries(content) : IsPrefix(Append(scafalraCacheDir, n), e.local)

\* C29: an add or a remove that starts without an orphaned cache slot and
\* completes successfully ends without one, also the remove of every child
\* entry of a depth-1 add
C29_NoOrphanedCacheSlot ==
  (/\ pc = "done"
   /\ cmd.name \in {"add", "remove"}
   /\ report.success > 0
   /\ NoOrphan(start.fs, start.store))
    => NoOrphan(fs, store)

----------------------------------------------------------------------------
(* Properties of a failed ScaffoldCli.create                                *)

\* the directory create writes to
CreateDestination ==
  IF isURL(cmd.src)
  THEN Append(IF cmd.directory # Undefined THEN Resolve(cmd.directory) ELSE cwd,
              ParseMatch(cmd.src).name)
  ELSE createTarget

\* C30: when create ends in an error, a destination directory that was there
\* when it started is still there with the content it had, with and without
\* overwrite
C30_FailedCreateKeepsDestination ==
  (CreateDone /\ report.success = 0 /\ isDirectory(start.fs, CreateDestination)) =>
    /\ isDirectory(fs, CreateDestination)
    /\ Tree(fs, CreateDestination) = Tree(start.fs, CreateDestination)

====
